---------------------------- MODULE Spec2Model ----------------------------
(***************************************************************************)
(* CodeMentor: the refactoring session of cli/enhanced_apply_fixes.py      *)
(* (RefactoringProgressTracker, SmartFixApplicator) and the score engine   *)
(* of agents/comprehensive_analysis_agent.py.                              *)
(*                                                                         *)
(* Conventions.                                                            *)
(*  - A score is an integer number of tenths of a point: 85.0 is 850, 0.5  *)
(*    is 5.  Every score the tracker compares is an analyzer result, and   *)
(*    the inputs drawn here are multiples of a tenth, so the comparisons   *)
(*    are the code's.                                                      *)
(*  - An issue of a session is a dict; the code reads its 'description'    *)
(*    (only through keyword tests) and its 'severity'.  It is modelled as  *)
(*    [groups, severity]: groups is the set of keyword lists of            *)
(*    _classify_issue that the lower-cased description contains a keyword  *)
(*    of, severity is the value of the key or "absent" when the key is     *)
(*    missing.                                                             *)
(*  - The reason string of a verdict is modelled by a tag naming the       *)
(*    return statement that produced it.                                   *)
(***************************************************************************)
EXTENDS Integers, Sequences, FiniteSets, TLC

VARIABLES
    criteria,            \* RefactoringProgressTracker.criteria
    iteration_history,   \* RefactoringProgressTracker.iteration_history
    issue_type_history,  \* RefactoringProgressTracker.issue_type_history
    score_history,       \* RefactoringProgressTracker.score_history
    verdict,             \* what the last should_stop_refactoring call produced
    \* _run_smart_interactive_mode: its locals and where it stands
    pc,
    current_code,
    remaining_issues,
    iteration,
    total_feedback,
    selected_issues,
    fixed_code,
    continue_anyway,     \* the answer to "Continue refactoring anyway?" in this iteration
    final_score,
    \* history variables of the session (not in the code)
    fixer_calls,         \* number of run_refactor_agent calls made
    analysis_failed,     \* which analyzer calls of the current iteration raised
    overrides,           \* number of 'y' answers to "Continue refactoring anyway?"
    confirmed_code,      \* the candidate the user confirmed last ("original": none)
    code_history,        \* the code version each recorded score was computed for
    \* ComprehensiveAnalysisAgent: the issues of an analysis and their score
    issues_by_category,  \* the dict _organize_by_category builds
    overall_score,       \* _calculate_overall_score(issues_by_category)
    previous_issues,     \* issues_by_category of the analysis before this one
    previous_score,      \* and its overall_score
    added_issue,         \* the issue this analysis has in addition
    category_scores,     \* _calculate_category_scores(issues_by_category)
    current_score,       \* what _get_current_score returned for this analysis
    \* the analysis agents: the findings of a pass and what is kept of them
    agent,               \* which agent class this is
    all_issues,          \* the categorized findings of the pass, as delivered
    unique_issues,       \* the findings of the pass after deduplication
    cumulative_issues,   \* IterativeAnalysisAgent.cumulative_issues
    analysis_iteration,  \* the loop counter of analyze_iteratively; the calls made
    previous_issue_signatures,
    stable_iterations,
    stopping_reason,
    max_iterations,      \* IterativeAnalysisAgent.max_iterations
    issue_history,       \* IterativeAnalysisAgent.issue_history, by iteration
    analysis_result,     \* how analyze_iteratively ended, <<>> while it runs
    \* the classifiers: the issue handed to one and what it returned
    classified_issue,
    classification,
    \* the choice of the stopping criteria from the issues of an analysis
    selection_issues,    \* the issues handed to the function that chooses
    selection_score,     \* the overall score of that analysis
    smart_config,        \* what load_smart_config returns
    selected_criteria,   \* the function that chose, and the criteria it returned
    \* EnhancedControlAgent._run_interactive_refinement and cli/apply_fixes.py
    legacy_pc,           \* where the refinement stands
    input_issues,        \* apply_fixes: the issues it was called with
    user_input,          \* apply_fixes: what the user typed at the selection prompt
    selected_numbers,    \* apply_fixes: the parsed selection
    new_code,            \* apply_fixes: what run_refactor_agent returned
    feedback,            \* apply_fixes: the list it returns
    refactored_code,     \* _run_interactive_refinement: the code after the fixes
    final_code,          \* the final_code of the AnalysisResults returned
    \* history variables of the refinement (not in the code)
    confirmed_candidate, \* the candidate the user confirmed in apply_fixes
    refactor_calls       \* number of run_refactor_agent calls made

trackerVars == <<criteria, iteration_history, issue_type_history, score_history>>
sessionVars == <<pc, current_code, remaining_issues, iteration, total_feedback,
                 selected_issues, fixed_code, continue_anyway, final_score,
                 fixer_calls, analysis_failed, overrides, confirmed_code, code_history>>
scoreVars == <<issues_by_category, overall_score, previous_issues, previous_score,
               added_issue, category_scores, current_score>>
analysisVars == <<agent, all_issues, unique_issues, cumulative_issues,
                  analysis_iteration, previous_issue_signatures, stable_iterations,
                  stopping_reason, max_iterations, issue_history, analysis_result>>
vars == <<criteria, iteration_history, issue_type_history, score_history, verdict,
          pc, current_code, remaining_issues, iteration, total_feedback,
          selected_issues, fixed_code, continue_anyway, final_score,
          fixer_calls, analysis_failed, overrides, confirmed_code, code_history,
          issues_by_category, overall_score, previous_issues, previous_score,
          added_issue, category_scores, current_score,
          agent, all_issues, unique_issues, cumulative_issues, analysis_iteration,
          previous_issue_signatures, stable_iterations, stopping_reason,
          max_iterations, issue_history, analysis_result,
          classified_issue, classification,
          selection_issues, selection_score, smart_config, selected_criteria,
          legacy_pc, input_issues, user_input, selected_numbers, new_code, feedback,
          refactored_code, final_code, confirmed_candidate, refactor_calls>>

\* what the actions of the tracker and of the session leave alone
classifyVars == <<classified_issue, classification>>
selectionVars == <<selection_issues, selection_score, smart_config, selected_criteria>>
legacyVars == <<legacy_pc, input_issues, user_input, selected_numbers, new_code, feedback,
                refactored_code, final_code, confirmed_candidate, refactor_calls>>
outsideTracker == <<sessionVars, scoreVars, analysisVars, classifyVars, selectionVars,
                    legacyVars>>
outsideSession == <<scoreVars, analysisVars, classifyVars, selectionVars, legacyVars>>
outsideScore == <<trackerVars, verdict, sessionVars, analysisVars, classifyVars,
                  selectionVars, legacyVars>>
outsideAnalysis == <<trackerVars, verdict, sessionVars, scoreVars, classifyVars,
                     selectionVars, legacyVars>>
outsideClassify == <<trackerVars, verdict, sessionVars, scoreVars, analysisVars,
                     selectionVars, legacyVars>>
outsideSelection == <<trackerVars, verdict, sessionVars, scoreVars, analysisVars,
                      classifyVars, legacyVars>>
outsideLegacy == <<trackerVars, verdict, sessionVars, scoreVars, analysisVars,
                   classifyVars, selectionVars>>

---------------------------------------------------------------------------
(* Bounds and input sets *)

MaxRecords == 4

IssueCategory == {"structural", "design", "style", "security", "performance"}

SqlInjection == [groups |-> {"security"}, severity |-> "high"]
LongMethod == [groups |-> {"structural"}, severity |-> "high"]
NamingIssue == [groups |-> {"style"}, severity |-> "low"]
Unclassified == [groups |-> {}, severity |-> "absent"]

TrackerIssueLists ==
    { <<>>, <<NamingIssue>>, <<Unclassified>>, <<SqlInjection, LongMethod>> }

TrackerScores == {600, 603, 900}

\* StoppingCriteria(): the dataclass defaults
DefaultCriteria ==
    [score_threshold |-> 850, max_low_severity_issues |-> 3, max_iterations |-> 8,
     plateau_iterations |-> 3, min_improvement_per_iteration |-> 10,
     acceptable_issue_categories |-> {"style", "design"}]

StrictCriteria ==
    [score_threshold |-> 900, max_low_severity_issues |-> 0, max_iterations |-> 3,
     plateau_iterations |-> 3, min_improvement_per_iteration |-> 10,
     acceptable_issue_categories |-> {"style", "design"}]

QuickCriteria ==
    [score_threshold |-> 950, max_low_severity_issues |-> 0, max_iterations |-> 8,
     plateau_iterations |-> 2, min_improvement_per_iteration |-> 2,
     acceptable_issue_categories |-> {"style"}]

\* the criteria a tracker is constructed with here
CriteriaSet == {StrictCriteria, QuickCriteria}

---------------------------------------------------------------------------
(* RefactoringProgressTracker *)

\* variant: an issue without a severity counts as low
SeverityOfDefaultLow(issue) == IF issue.severity = "absent" THEN "low" ELSE issue.severity

\* issue.get('severity', 'medium')
SeverityOf(issue) == IF issue.severity = "absent" THEN "medium" ELSE issue.severity

\* _classify_issue: the if/elif chain over the keyword lists
ClassifyIssue(groups) ==
    IF "structural" \in groups THEN "structural"
    ELSE IF "design" \in groups THEN "design"
    ELSE IF "style" \in groups THEN "style"
    ELSE IF "security" \in groups THEN "security"
    ELSE IF "performance" \in groups THEN "performance"
    ELSE "design"

\* _categorize_issues: a count per category
CategorizeIssues(issues) ==
    [cat \in IssueCategory |->
        Cardinality({i \in DOMAIN issues : ClassifyIssue(issues[i].groups) = cat})]

\* variant: the window holds plateau_iterations scores, one improvement fewer
HasScorePlateauShortWindow(sh, crit) ==
    IF Len(sh) < crit.plateau_iterations + 1 THEN FALSE
    ELSE \A i \in (Len(sh) - crit.plateau_iterations + 2)..Len(sh) :
            sh[i] - sh[i - 1] < crit.min_improvement_per_iteration

\* variant: one small improvement in the window is enough
HasScorePlateauAnyBelow(sh, crit) ==
    IF Len(sh) < crit.plateau_iterations + 1 THEN FALSE
    ELSE \E i \in (Len(sh) - crit.plateau_iterations + 1)..Len(sh) :
            sh[i] - sh[i - 1] < crit.min_improvement_per_iteration

\* _has_score_plateau
HasScorePlateau(sh, crit) ==
    IF Len(sh) < crit.plateau_iterations + 1 THEN FALSE
    ELSE \A i \in (Len(sh) - crit.plateau_iterations + 1)..Len(sh) :
            sh[i] - sh[i - 1] < crit.min_improvement_per_iteration

\* the literal 0.5 of _has_diminishing_returns, in tenths
DiminishingLimit == 5

\* variant: diminishing returns looked for only from the fourth score on
HasDiminishingReturnsFromFour(sh) ==
    IF Len(sh) < 4 THEN FALSE
    ELSE \A i \in (Len(sh) - 1)..Len(sh) : sh[i] - sh[i - 1] < DiminishingLimit

\* variant: only the last improvement is looked at
HasDiminishingReturnsLastOnly(sh) ==
    IF Len(sh) < 3 THEN FALSE
    ELSE sh[Len(sh)] - sh[Len(sh) - 1] < DiminishingLimit

\* _has_diminishing_returns
HasDiminishingReturns(sh) ==
    IF Len(sh) < 3 THEN FALSE
    ELSE \A i \in (Len(sh) - 1)..Len(sh) : sh[i] - sh[i - 1] < DiminishingLimit

\* the frozenset of _has_issue_cycling
Signature(categories) == {cat \in IssueCategory : categories[cat] > 0}

\* variant: cycling looked for in the last 3 iterations
HasIssueCyclingOfThree(ith) ==
    IF Len(ith) < 3 THEN FALSE
    ELSE Cardinality({Signature(ith[i]) : i \in (Len(ith) - 2)..Len(ith)}) <= 2

\* variant: cycling only when the last 4 iterations show one pattern
HasIssueCyclingAllSame(ith) ==
    IF Len(ith) < 4 THEN FALSE
    ELSE Cardinality({Signature(ith[i]) : i \in (Len(ith) - 3)..Len(ith)}) <= 1

\* _has_issue_cycling
HasIssueCycling(ith) ==
    IF Len(ith) < 4 THEN FALSE
    ELSE Cardinality({Signature(ith[i]) : i \in (Len(ith) - 3)..Len(ith)}) <= 2

\* variant: an empty issue list is not "only low severity"
OnlyLowSeverityNonEmpty(current_issues) ==
    /\ current_issues # <<>>
    /\ \A i \in DOMAIN current_issues : SeverityOf(current_issues[i]) = "low"

\* _analyze_current_state, lines 157-158: only_low_severity
OnlyLowSeverity(current_issues) ==
    \A i \in DOMAIN current_issues : SeverityOf(current_issues[i]) = "low"

\* variant: the issues of every category are counted
TotalUnacceptableAll(current_categories, crit) ==
    LET Sum[S \in SUBSET IssueCategory] ==
            IF S = {} THEN 0
            ELSE LET c == CHOOSE x \in S : TRUE
                 IN current_categories[c] + Sum[S \ {c}]
    IN Sum[IssueCategory]

\* _analyze_current_state, lines 161-165: total_unacceptable
TotalUnacceptable(current_categories, crit) ==
    LET unacceptable == {cat \in IssueCategory :
                            cat \notin crit.acceptable_issue_categories}
        Sum[S \in SUBSET unacceptable] ==
            IF S = {} THEN 0
            ELSE LET c == CHOOSE x \in S : TRUE
                 IN current_categories[c] + Sum[S \ {c}]
    IN Sum[unacceptable]

\* _analyze_current_state
AnalyzeCurrentState(ih, ith, sh, crit) ==
    IF ih = <<>> THEN [status |-> "no_data"]
    ELSE
        LET current_iteration == ih[Len(ih)]
            current_issues == current_iteration.issues
            current_categories == CategorizeIssues(current_issues)
            total_unacceptable == TotalUnacceptable(current_categories, crit)
        IN [status |-> "ok",
            score |-> current_iteration.score,
            total_issues |-> Len(current_issues),
            only_low_severity |-> OnlyLowSeverity(current_issues),
            only_acceptable_issues |->
                total_unacceptable <= crit.max_low_severity_issues,
            score_plateaued |-> HasScorePlateau(sh, crit),
            diminishing_returns |-> HasDiminishingReturns(sh),
            issue_cycling |-> HasIssueCycling(ith),
            category_breakdown |-> current_categories,
            unacceptable_issues |-> total_unacceptable]

Returned(stop, reason, analysis) ==
    [raised |-> FALSE, stop |-> stop, reason |-> reason, analysis |-> analysis]

\* analysis['score'] on {"status": "no_data"}
KeyError == [raised |-> TRUE, stop |-> FALSE, reason |-> "KeyError",
             analysis |-> [status |-> "no_data"]]

NoCall == [raised |-> FALSE, stop |-> FALSE, reason |-> "NoCall",
           analysis |-> [status |-> "none"]]

\* variant: no iteration cap
ShouldStopNoCap(ih, ith, sh, crit) ==
    LET analysis == AnalyzeCurrentState(ih, ith, sh, crit)
    IN  IF analysis.status = "no_data" THEN KeyError
        ELSE IF analysis.score >= crit.score_threshold /\ analysis.only_acceptable_issues
            THEN Returned(TRUE, "ThresholdReached", analysis)
        ELSE IF analysis.only_low_severity
            THEN Returned(TRUE, "OnlyLowSeverity", analysis)
        ELSE IF analysis.score_plateaued
            THEN Returned(TRUE, "Plateau", analysis)
        ELSE IF analysis.diminishing_returns
            THEN Returned(TRUE, "DiminishingReturns", analysis)
        ELSE IF analysis.issue_cycling
            THEN Returned(TRUE, "IssueCycling", analysis)
        ELSE Returned(FALSE, "Continue", analysis)

\* variant: the diminishing-returns test placed before the iteration cap
ShouldStopDiminishingFirst(ih, ith, sh, crit) ==
    LET analysis == AnalyzeCurrentState(ih, ith, sh, crit)
    IN  IF analysis.status = "no_data" THEN KeyError
        ELSE IF analysis.score >= crit.score_threshold /\ analysis.only_acceptable_issues
            THEN Returned(TRUE, "ThresholdReached", analysis)
        ELSE IF analysis.only_low_severity
            THEN Returned(TRUE, "OnlyLowSeverity", analysis)
        ELSE IF analysis.score_plateaued
            THEN Returned(TRUE, "Plateau", analysis)
        ELSE IF analysis.diminishing_returns
            THEN Returned(TRUE, "DiminishingReturns", analysis)
        ELSE IF Len(ih) >= crit.max_iterations
            THEN Returned(TRUE, "MaxIterationsReached", analysis)
        ELSE IF analysis.issue_cycling
            THEN Returned(TRUE, "IssueCycling", analysis)
        ELSE Returned(FALSE, "Continue", analysis)

\* should_stop_refactoring
ShouldStopRefactoring(ih, ith, sh, crit) ==
    LET analysis == AnalyzeCurrentState(ih, ith, sh, crit)
    IN  IF analysis.status = "no_data" THEN KeyError
        ELSE IF analysis.score >= crit.score_threshold /\ analysis.only_acceptable_issues
            THEN Returned(TRUE, "ThresholdReached", analysis)
        ELSE IF analysis.only_low_severity
            THEN Returned(TRUE, "OnlyLowSeverity", analysis)
        ELSE IF analysis.score_plateaued
            THEN Returned(TRUE, "Plateau", analysis)
        ELSE IF Len(ih) >= crit.max_iterations
            THEN Returned(TRUE, "MaxIterationsReached", analysis)
        ELSE IF analysis.diminishing_returns
            THEN Returned(TRUE, "DiminishingReturns", analysis)
        ELSE IF analysis.issue_cycling
            THEN Returned(TRUE, "IssueCycling", analysis)
        ELSE Returned(FALSE, "Continue", analysis)

\* variant: the score history keeps only the scores that differ from the last
AddIterationDistinctScores(iteration_data) ==
    /\ iteration_history' = Append(iteration_history, iteration_data)
    /\ issue_type_history' =
           Append(issue_type_history, CategorizeIssues(iteration_data.issues))
    /\ score_history' =
           IF score_history # <<>>
              /\ score_history[Len(score_history)] = iteration_data.score
           THEN score_history
           ELSE Append(score_history, iteration_data.score)
    /\ UNCHANGED criteria

\* add_iteration
AddIteration(iteration_data) ==
    /\ iteration_history' = Append(iteration_history, iteration_data)
    /\ issue_type_history' =
           Append(issue_type_history, CategorizeIssues(iteration_data.issues))
    /\ score_history' = Append(score_history, iteration_data.score)
    /\ UNCHANGED criteria

---------------------------------------------------------------------------
(* The tracker on its own: any caller, any snapshots *)

\* the score engine at rest: no report is being built
NoScoring ==
    /\ issues_by_category = <<>>
    /\ overall_score = <<0, 1>>
    /\ previous_issues = <<>>
    /\ previous_score = <<0, 1>>
    /\ added_issue = <<>>
    /\ category_scores = <<>>
    /\ current_score = <<>>

\* run_iterative_analysis, line 284: IterativeAnalysisAgent(api_key, max_iterations=3)
IterativeMaxIterations == 3

\* no analysis agent is running
NoAnalysis ==
    /\ agent = "none"
    /\ all_issues = <<>>
    /\ unique_issues = <<>>
    /\ cumulative_issues = <<>>
    /\ analysis_iteration = 0
    /\ previous_issue_signatures = {}
    /\ stable_iterations = 0
    /\ stopping_reason = ""
    /\ max_iterations = IterativeMaxIterations
    /\ issue_history = <<>>
    /\ analysis_result = <<>>

\* no issue is being classified
NoClassification ==
    /\ classified_issue = <<>>
    /\ classification = <<>>

\* no interactive refinement of the control agent is running
NoLegacy ==
    /\ legacy_pc = "none"
    /\ input_issues = <<>>
    /\ user_input = [kind |-> "unread", tokens |-> <<>>]
    /\ selected_numbers = <<>>
    /\ new_code = "unset"
    /\ feedback = <<>>
    /\ refactored_code = "original"
    /\ final_code = "unset"
    /\ confirmed_candidate = "none"
    /\ refactor_calls = 0

\* no stopping criteria are being chosen
NoSelection ==
    /\ selection_issues = <<>>
    /\ selection_score = 0
    /\ smart_config = <<>>
    /\ selected_criteria = <<>>

\* the session variables, for the specifications that run no session
NoSession ==
    /\ pc = "none"
    /\ current_code = "original"
    /\ remaining_issues = <<>>
    /\ iteration = 0
    /\ total_feedback = <<>>
    /\ selected_issues = <<>>
    /\ fixed_code = "original"
    /\ continue_anyway = "unset"
    /\ final_score = 0
    /\ fixer_calls = 0
    /\ analysis_failed = {}
    /\ overrides = 0
    /\ confirmed_code = "original"
    /\ code_history = <<>>

\* RefactoringProgressTracker(criteria), for criteria of the given set
TrackerStart(criteria_set) ==
    /\ criteria \in criteria_set
    /\ iteration_history = <<>>
    /\ issue_type_history = <<>>
    /\ score_history = <<>>
    /\ verdict = NoCall
    /\ NoSession
    /\ NoScoring
    /\ NoAnalysis
    /\ NoClassification
    /\ NoSelection
    /\ NoLegacy

TrackerInit == TrackerStart(CriteriaSet)

\* add_iteration with a score and issues of the given sets, up to max_records
RecordFrom(scores, issue_lists, max_records) ==
    /\ Len(iteration_history) < max_records
    /\ \E score \in scores, issues \in issue_lists :
          AddIteration([iteration |-> Len(iteration_history) + 1,
                        score |-> score, issues |-> issues])
    /\ verdict' = NoCall
    /\ UNCHANGED outsideTracker

Record == RecordFrom(TrackerScores, TrackerIssueLists, MaxRecords)

\* variant: the evaluation keeps only the scores of the plateau window
EvaluateTrimming ==
    /\ verdict' = ShouldStopRefactoring(iteration_history, issue_type_history,
                                        score_history, criteria)
    /\ score_history' =
           IF Len(score_history) > criteria.plateau_iterations + 1
           THEN Tail(score_history) ELSE score_history
    /\ UNCHANGED <<criteria, iteration_history, issue_type_history, outsideTracker>>

\* should_stop_refactoring, called by anyone at any time
Evaluate ==
    /\ verdict' = ShouldStopRefactoring(iteration_history, issue_type_history,
                                        score_history, criteria)
    /\ UNCHANGED <<trackerVars, outsideTracker>>

TrackerNext == Record \/ Evaluate

TrackerSpec == TrackerInit /\ [][TrackerNext]_vars

---------------------------------------------------------------------------
(* A tracker whose snapshots alternate between two kinds of issues         *)
(*                                                                         *)
(* The same tracker under the default criteria, fed snapshots whose only   *)
(* issue is a long method in the odd iterations and a feature envy in the  *)
(* even ones.                                                              *)

MaxCyclingRecords == 4

\* an issue whose description matches a design keyword only
FeatureEnvy == [groups |-> {"design"}, severity |-> "high"]

\* the issues of the next snapshot
CyclingIssues ==
    IF Len(iteration_history) % 2 = 0 THEN <<LongMethod>> ELSE <<FeatureEnvy>>

\* its score: 60.0, 60.3 or 61.0
CyclingScores == {600, 603, 610}

CyclingInit == TrackerStart({DefaultCriteria})

CyclingRecord == RecordFrom(CyclingScores, {CyclingIssues}, MaxCyclingRecords)

CyclingNext == CyclingRecord \/ Evaluate

CyclingSpec == CyclingInit /\ [][CyclingNext]_vars

---------------------------------------------------------------------------
(* A tracker whose score rises slowly                                      *)
(*                                                                         *)
(* The same tracker under the default criteria (plateau_iterations 3,      *)
(* min_improvement_per_iteration 1.0), fed scores among 60, 62, 62.5 and   *)
(* 63 with issues of high severity.                                        *)

MaxSlowRecords == 4

SlowScores == {600, 620, 625, 630}

SlowIssueLists == { <<LongMethod>>, <<FeatureEnvy>>, <<SqlInjection, LongMethod>> }

SlowInit == TrackerStart({DefaultCriteria})

SlowRecord == RecordFrom(SlowScores, SlowIssueLists, MaxSlowRecords)

SlowNext == SlowRecord \/ Evaluate

SlowSpec == SlowInit /\ [][SlowNext]_vars

---------------------------------------------------------------------------
(* A tracker at the edges of its stop conditions                           *)
(*                                                                         *)
(* The same tracker under criteria that allow one unacceptable issue, with *)
(* plateau_iterations 2 and min_improvement_per_iteration 1.0, fed scores  *)
(* 60, 60.3, 60.5 and 61: consecutive scores differ by exactly 0.5 and     *)
(* 1.0, by less, or fall.                                                  *)

MaxBoundaryRecords == 4

BoundaryCriteria ==
    [score_threshold |-> 605, max_low_severity_issues |-> 1, max_iterations |-> 8,
     plateau_iterations |-> 2, min_improvement_per_iteration |-> 10,
     acceptable_issue_categories |-> {"style"}]

BoundaryScores == {600, 603, 605, 610}

BoundaryIssueLists ==
    { <<NamingIssue>>, <<SqlInjection>>, <<SqlInjection, LongMethod>> }

BoundaryInit == TrackerStart({BoundaryCriteria})

BoundaryRecord == RecordFrom(BoundaryScores, BoundaryIssueLists, MaxBoundaryRecords)

BoundaryNext == BoundaryRecord \/ Evaluate

BoundarySpec == BoundaryInit /\ [][BoundaryNext]_vars

---------------------------------------------------------------------------
(* SmartFixApplicator._run_smart_interactive_mode                          *)
(*                                                                         *)
(* One action per stretch of the method between two points where the user  *)
(* answers a prompt or a collaborator (run_refactor_agent,                 *)
(* run_comprehensive_analysis) returns.  Code versions are opaque values.  *)

MaxSessionIterations == 3

Codes == {"original", "candidate"}

\* what run_comprehensive_analysis can do: raise, or return results
SessionScores == {600, 900}
SessionIssueLists == { <<>>, <<NamingIssue>>, <<SqlInjection, LongMethod>> }
Raise == [raised |-> TRUE]
ScoreOutcomes ==
    {[raised |-> FALSE, overall_score |-> s] : s \in SessionScores} \cup {Raise}
IssueOutcomes ==
    {[raised |-> FALSE, final_issues |-> l] : l \in SessionIssueLists} \cup {Raise}

\* what run_refactor_agent can do: raise, return nothing, or return code
FixerOutcomes == Codes \cup {"raise", "none"}

CapTwoCriteria ==
    [score_threshold |-> 900, max_low_severity_issues |-> 0, max_iterations |-> 2,
     plateau_iterations |-> 3, min_improvement_per_iteration |-> 10,
     acceptable_issue_categories |-> {"style", "design"}]

\* StoppingCriteria(score_threshold=150.0, max_iterations=0): the dataclass
\* checks neither field
UncheckedCriteria ==
    [score_threshold |-> 1500, max_low_severity_issues |-> 0, max_iterations |-> 0,
     plateau_iterations |-> 3, min_improvement_per_iteration |-> 10,
     acceptable_issue_categories |-> {"style", "design"}]

SessionCriteriaSet == {CapTwoCriteria, UncheckedCriteria}

\* variant: a failed analysis scored as a perfect one
GetCurrentScoreOptimistic(outcome) ==
    IF outcome.raised THEN 1000 ELSE outcome.overall_score

\* variant: a failed analysis reported by the sentinel -1
GetCurrentScoreSentinel(outcome) ==
    IF outcome.raised THEN -1 ELSE outcome.overall_score

\* _get_current_score
GetCurrentScore(outcome) == IF outcome.raised THEN 0 ELSE outcome.overall_score

\* _reanalyze_code
ReanalyzeCode(outcome) == IF outcome.raised THEN <<>> ELSE outcome.final_issues

\* _apply_selected_fixes: run_refactor_agent(...) or code
ApplySelectedFixes(code, outcome) == IF outcome = "none" THEN code ELSE outcome

\* the issues of `issues` at the positions I, in order
Pick(issues, I) ==
    LET F[k \in 0..Len(issues)] ==
            IF k = 0 THEN <<>>
            ELSE IF k \in I THEN Append(F[k - 1], issues[k]) ELSE F[k - 1]
    IN F[Len(issues)]

\* _get_smart_issue_selection: nothing, everything, or some of the issues
Selections(issues) == {Pick(issues, I) : I \in SUBSET DOMAIN issues}

\* variant: nothing is dropped
NotSelectedKeepsAll(issues, selected) == issues

\* [issue for issue in remaining_issues if issue not in selected_issues]
NotSelected(issues, selected) ==
    LET Keep(x) == \A j \in DOMAIN selected : selected[j] # x
    IN SelectSeq(issues, Keep)

\* iteration_feedback, lines 393-398
IterationFeedback(selected, iter) ==
    [i \in DOMAIN selected |->
        [issue |-> selected[i], applied |-> TRUE, iteration |-> iter]]

\* variant: the candidate replaces the current code whatever the answer is
AdoptedCodeUnconfirmed(answer, current, fixed) == fixed

\* lines 389-390: the candidate replaces the current code only when confirmed
AdoptedCode(answer, current, fixed) == IF answer = "y" THEN fixed ELSE current

\* variant: the loop is left without asking the user
LoopTailNoPrompt(issues, should_stop) ==
    IF issues # <<>> /\ ~should_stop THEN "final" ELSE "loop"

\* lines 425-429: where the loop body ends up
LoopTail(issues, should_stop) ==
    IF issues # <<>> /\ ~should_stop THEN "ask_continue" ELSE "loop"

\* the state at the call of apply_fixes_smart, for given criteria and issues
SessionStart(criteria_set, issue_lists) ==
    /\ criteria \in criteria_set
    /\ iteration_history = <<>>
    /\ issue_type_history = <<>>
    /\ score_history = <<>>
    /\ verdict = NoCall
    /\ pc = "start"
    /\ current_code = "original"
    /\ remaining_issues \in issue_lists
    /\ iteration = 0
    /\ total_feedback = <<>>
    /\ selected_issues = <<>>
    /\ fixed_code = "original"
    /\ continue_anyway = "unset"
    /\ final_score = 0
    /\ fixer_calls = 0
    /\ analysis_failed = {}
    /\ overrides = 0
    /\ confirmed_code = "original"
    /\ code_history = <<>>
    /\ NoScoring
    /\ NoAnalysis
    /\ NoClassification
    /\ NoSelection
    /\ NoLegacy

SessionInit == SessionStart(SessionCriteriaSet, SessionIssueLists)

\* variant: the interactive mode entered whatever the issues are
ApplyFixesSmartAlwaysInteractive ==
    /\ pc = "start"
    /\ pc' = "loop"
    /\ UNCHANGED <<trackerVars, verdict, current_code, remaining_issues, iteration,
                   total_feedback, selected_issues, fixed_code, continue_anyway,
                   final_score, fixer_calls, analysis_failed, overrides,
                   confirmed_code, code_history>>
    /\ UNCHANGED outsideSession

\* apply_fixes_smart, lines 255-271: nothing to fix, or the interactive mode
ApplyFixesSmart ==
    /\ pc = "start"
    /\ pc' = IF remaining_issues = <<>> THEN "done" ELSE "loop"
    /\ UNCHANGED <<trackerVars, verdict, current_code, remaining_issues, iteration,
                   total_feedback, selected_issues, fixed_code, continue_anyway,
                   final_score, fixer_calls, analysis_failed, overrides,
                   confirmed_code, code_history>>
    /\ UNCHANGED outsideSession

\* lines 342-358: the loop test, the score, the record and the evaluation, for
\* the given outcomes of the analysis and at most max_passes passes
IterationStartWith(outcomes, max_passes) ==
    /\ pc = "loop"
    /\ remaining_issues # <<>>
    /\ iteration < max_passes
    /\ iteration' = iteration + 1
    /\ \E outcome \in outcomes :
          /\ AddIteration([iteration |-> iteration + 1,
                           score |-> GetCurrentScore(outcome),
                           issues |-> remaining_issues])
          /\ analysis_failed' = IF outcome.raised THEN {"score"} ELSE {}
    /\ verdict' = ShouldStopRefactoring(iteration_history', issue_type_history',
                                        score_history', criteria)
    /\ continue_anyway' = "unset"
    /\ code_history' = Append(code_history, current_code)
    /\ pc' = IF verdict'.stop THEN "ask_anyway" ELSE "select"
    /\ UNCHANGED <<current_code, remaining_issues, total_feedback, selected_issues,
                   fixed_code, final_score, fixer_calls, overrides, confirmed_code>>
    /\ UNCHANGED outsideSession

IterationStart == IterationStartWith(ScoreOutcomes, MaxSessionIterations)

\* line 342: the loop ends when no issue remains
LoopExit ==
    /\ pc = "loop"
    /\ remaining_issues = <<>>
    /\ pc' = "final"
    /\ UNCHANGED <<trackerVars, verdict, current_code, remaining_issues, iteration,
                   total_feedback, selected_issues, fixed_code, continue_anyway,
                   final_score, fixer_calls, analysis_failed, overrides,
                   confirmed_code, code_history>>
    /\ UNCHANGED outsideSession

\* variant: the break taken on 'y' instead of on any other answer
ContinueAnywayInverted ==
    /\ pc = "ask_anyway"
    /\ \E answer \in {"y", "n"} :
          /\ continue_anyway' = answer
          /\ overrides' = IF answer = "y" THEN overrides + 1 ELSE overrides
          /\ pc' = IF answer = "y" THEN "final" ELSE "select"
    /\ UNCHANGED <<trackerVars, verdict, current_code, remaining_issues, iteration,
                   total_feedback, selected_issues, fixed_code, final_score,
                   fixer_calls, analysis_failed, confirmed_code, code_history>>
    /\ UNCHANGED outsideSession

\* lines 359-367: the stop recommendation and the user's answer to it
ContinueAnyway ==
    /\ pc = "ask_anyway"
    /\ \E answer \in {"y", "n"} :
          /\ continue_anyway' = answer
          /\ overrides' = IF answer = "y" THEN overrides + 1 ELSE overrides
          /\ pc' = IF answer # "y" THEN "final" ELSE "select"
    /\ UNCHANGED <<trackerVars, verdict, current_code, remaining_issues, iteration,
                   total_feedback, selected_issues, fixed_code, final_score,
                   fixer_calls, analysis_failed, confirmed_code, code_history>>
    /\ UNCHANGED outsideSession

\* lines 369-377: the user's selection, among the given ones
SelectIssuesAmong(selections) ==
    /\ pc = "select"
    /\ \E selection \in selections :
          /\ selected_issues' = selection
          /\ pc' = IF selection = <<>> THEN "final" ELSE "fix"
    /\ UNCHANGED <<trackerVars, verdict, current_code, remaining_issues, iteration,
                   total_feedback, fixed_code, continue_anyway, final_score,
                   fixer_calls, analysis_failed, overrides, confirmed_code, code_history>>
    /\ UNCHANGED outsideSession

SelectIssues == SelectIssuesAmong(Selections(remaining_issues))

\* lines 379-383 and 419-429: the fixer call and the branch on its result, for
\* the given outcomes of the fixer
ApplyFixesWith(outcomes) ==
    /\ pc = "fix"
    /\ fixer_calls' = fixer_calls + 1
    /\ \E outcome \in outcomes :
          IF outcome = "raise"
          THEN /\ pc' = "raised"
               /\ UNCHANGED <<fixed_code, remaining_issues>>
          ELSE /\ fixed_code' = ApplySelectedFixes(current_code, outcome)
               /\ IF fixed_code' # current_code
                  THEN /\ pc' = "confirm"
                       /\ UNCHANGED remaining_issues
                  ELSE /\ remaining_issues' =
                              NotSelected(remaining_issues, selected_issues)
                       /\ pc' = LoopTail(remaining_issues', verdict.stop)
    /\ UNCHANGED <<trackerVars, verdict, current_code, iteration, total_feedback,
                   selected_issues, continue_anyway, final_score, analysis_failed,
                   overrides, confirmed_code, code_history>>
    /\ UNCHANGED outsideSession

ApplyFixes == ApplyFixesWith(FixerOutcomes)

\* lines 384-418 and 425-429: the confirmation, the re-analysis, the loop tail,
\* for the given outcomes of the re-analysis
ConfirmChangesWith(outcomes) ==
    /\ pc = "confirm"
    /\ \E answer \in {"y", "n"} :
          /\ current_code' = AdoptedCode(answer, current_code, fixed_code)
          /\ IF answer = "y"
             THEN /\ confirmed_code' = fixed_code
                  /\ total_feedback' =
                         total_feedback \o IterationFeedback(selected_issues, iteration)
                  /\ \E outcome \in outcomes :
                        /\ remaining_issues' = ReanalyzeCode(outcome)
                        /\ analysis_failed' =
                               IF outcome.raised
                               THEN analysis_failed \cup {"reanalysis"}
                               ELSE analysis_failed
                  /\ pc' = LoopTail(remaining_issues', verdict.stop)
             ELSE /\ pc' = LoopTail(remaining_issues, verdict.stop)
                  /\ UNCHANGED <<total_feedback, remaining_issues, analysis_failed,
                                 confirmed_code>>
    /\ UNCHANGED <<trackerVars, verdict, iteration, selected_issues, fixed_code,
                   continue_anyway, final_score, fixer_calls, overrides,
                   code_history>>
    /\ UNCHANGED outsideSession

ConfirmChanges == ConfirmChangesWith(IssueOutcomes)

\* lines 426-429: "Continue with more fixes?"
AskContinue ==
    /\ pc = "ask_continue"
    /\ \E answer \in {"y", "n"} : pc' = IF answer = "y" THEN "loop" ELSE "final"
    /\ UNCHANGED <<trackerVars, verdict, current_code, remaining_issues, iteration,
                   total_feedback, selected_issues, fixed_code, continue_anyway,
                   final_score, fixer_calls, analysis_failed, overrides,
                   confirmed_code, code_history>>
    /\ UNCHANGED outsideSession

\* lines 431-437: the final score and the return, for the given outcomes of
\* the analysis
FinishWith(outcomes) ==
    /\ pc = "final"
    /\ \E outcome \in outcomes : final_score' = GetCurrentScore(outcome)
    /\ pc' = "done"
    /\ UNCHANGED <<trackerVars, verdict, current_code, remaining_issues, iteration,
                   total_feedback, selected_issues, fixed_code, continue_anyway,
                   fixer_calls, analysis_failed, overrides, confirmed_code, code_history>>
    /\ UNCHANGED outsideSession

Finish == FinishWith(ScoreOutcomes)

Next ==
    \/ ApplyFixesSmart
    \/ IterationStart
    \/ LoopExit
    \/ ContinueAnyway
    \/ SelectIssues
    \/ ApplyFixes
    \/ ConfirmChanges
    \/ AskContinue
    \/ Finish

Spec == SessionInit /\ [][Next]_vars

---------------------------------------------------------------------------
(* A session whose fixer never changes the code                            *)
(*                                                                         *)
(* The same method, run with a fixer that returns nothing or the code it   *)
(* was given, and an analyzer that scores the unchanged code the same each *)
(* time.  Every pass then drops the selected issues (lines 419-423), so    *)
(* the number of issues bounds the number of passes.                       *)

MaxStallIssues == 9

\* the issues such a session starts with: one security finding per line
StallIssues ==
    [k \in 1..MaxStallIssues |->
        [groups |-> {"security"}, severity |-> "high", line |-> k]]

\* run_comprehensive_analysis on code that has not changed: the score it gave
StallScoreOutcomes ==
    {o \in ScoreOutcomes :
        /\ ~o.raised
        /\ score_history # <<>> => o.overall_score = score_history[1]}

\* run_refactor_agent returning nothing, or the code it was given
StallFixerOutcomes == {"none", current_code}

\* _get_smart_issue_selection: nothing, the first issue, or the first two
StallSelections ==
    {SubSeq(remaining_issues, 1, k) :
        k \in 0..(IF Len(remaining_issues) < 2 THEN Len(remaining_issues) ELSE 2)}

StallInit == SessionStart({DefaultCriteria}, {StallIssues})

StalledIterationStart == IterationStartWith(StallScoreOutcomes, MaxStallIssues)

StalledSelectIssues == SelectIssuesAmong(StallSelections)

StalledApplyFixes == ApplyFixesWith(StallFixerOutcomes)

StalledFinish == FinishWith(StallScoreOutcomes)

\* ConfirmChanges is left out: the confirmation is asked only for changed code
StallNext ==
    \/ ApplyFixesSmart
    \/ StalledIterationStart
    \/ LoopExit
    \/ ContinueAnyway
    \/ StalledSelectIssues
    \/ StalledApplyFixes
    \/ AskContinue
    \/ StalledFinish

StallSpec == StallInit /\ [][StallNext]_vars

---------------------------------------------------------------------------
(* ComprehensiveAnalysisAgent: the overall quality score of a report       *)
(*                                                                         *)
(* A scored issue keeps the three fields the score reads: its category     *)
(* (the IssueCategory value it is filed under), its severity, and its      *)
(* confidence as a sequence, <<>> when the key is absent and <<c>> with c  *)
(* in tenths otherwise.  A penalty is counted in twentieths of a point:    *)
(* the category weights 3.0, 2.0, 1.5, 1.0 are doubled and the confidence  *)
(* is in tenths.  A score is the exact fraction <<numerator, denominator>> *)
(* of points; the rounding of Python floats is not modelled.               *)

MaxScoredIssues == 2

ScoreCategories == {"quality", "security", "code_smell", "static"}
ScoreSeverities == {"high", "low", "absent"}
ScoreConfidences == {<<0>>, <<10>>, <<>>}

ScoredIssues == [category : ScoreCategories, severity : ScoreSeverities,
                 confidence : ScoreConfidences]

\* lines 455-460: one list per category, in report order
OrganizeByCategory(issues) ==
    [cat \in ScoreCategories |->
        SelectSeq(issues, LAMBDA issue : issue.category = cat)]

\* lines 468-473, 485: category_weights.get(category, 1.0), doubled
CategoryWeight(category) ==
    CASE category = "security"   -> 6
      [] category = "quality"    -> 4
      [] category = "code_smell" -> 3
      [] category = "static"     -> 2
      [] OTHER                   -> 2

\* lines 475-479, 488: severity_weights.get(issue.get('severity', 'medium'), 2.0)
SeverityWeight(severity) ==
    CASE severity = "high"   -> 3
      [] severity = "medium" -> 2
      [] severity = "low"    -> 1
      [] OTHER               -> 2

\* line 489: issue.get('confidence', 0.8), in tenths
Confidence(issue) ==
    IF issue.confidence = <<>> THEN 8 ELSE issue.confidence[1]

\* line 490: penalty = cat_weight * sev_weight * confidence
Penalty(category, issue) ==
    CategoryWeight(category) * SeverityWeight(issue.severity) * Confidence(issue)

RECURSIVE SumPenalties(_, _)
\* lines 487-492: the inner loop over one category's issues
SumPenalties(category, issues) ==
    IF issues = <<>> THEN 0
    ELSE Penalty(category, Head(issues)) + SumPenalties(category, Tail(issues))

RECURSIVE TotalPenalty(_, _)
\* lines 484-491: total_penalty over the categories of the report
TotalPenalty(by_category, cats) ==
    IF cats = {} THEN 0
    ELSE LET cat == CHOOSE c \in cats : TRUE
         IN  SumPenalties(cat, by_category[cat])
               + TotalPenalty(by_category, cats \ {cat})

RECURSIVE TotalIssues(_, _)
\* line 492: total_issues over the categories of the report
TotalIssues(by_category, cats) ==
    IF cats = {} THEN 0
    ELSE LET cat == CHOOSE c \in cats : TRUE
         IN  Len(by_category[cat]) + TotalIssues(by_category, cats \ {cat})

Max(a, b) == IF a >= b THEN a ELSE b
Min(a, b) == IF a <= b THEN a ELSE b

\* a variant that subtracts the capped sum of the penalties
CalculateOverallScoreSum(by_category) ==
    IF \A cat \in DOMAIN by_category : by_category[cat] = <<>>
    THEN <<100, 1>>
    ELSE LET total_penalty == TotalPenalty(by_category, DOMAIN by_category)
             max_penalty   == Min(total_penalty, 2000)
         IN  <<Max(0, 2000 - max_penalty), 20>>

\* lines 462-501: 100 - min(10 * total_penalty / total_issues, 100), as the
\* fraction (200 n - min(total, 200 n)) / (2 n) with total in twentieths
CalculateOverallScore(by_category) ==
    IF \A cat \in DOMAIN by_category : by_category[cat] = <<>>
    THEN <<100, 1>>
    ELSE LET total_penalty == TotalPenalty(by_category, DOMAIN by_category)
             total_issues  == TotalIssues(by_category, DOMAIN by_category)
             max_penalty   == Min(total_penalty, 200 * total_issues)
         IN  <<Max(0, 200 * total_issues - max_penalty), 2 * total_issues>>

\* lines 515-516: severity_penalty.get(issue.get('severity', 'medium'), 10)
SeverityPenalty(severity) ==
    CASE severity = "high"   -> 15
      [] severity = "medium" -> 10
      [] severity = "low"    -> 5
      [] OTHER               -> 10

RECURSIVE CategoryPenalty(_)
\* lines 513-516: the penalty of one category's issues
CategoryPenalty(issues) ==
    IF issues = <<>> THEN 0
    ELSE SeverityPenalty(Head(issues).severity) + CategoryPenalty(Tail(issues))

\* lines 503-521: one score per category of the report, in points
CalculateCategoryScores(by_category) ==
    [cat \in DOMAIN by_category |->
        IF by_category[cat] = <<>> THEN 100
        ELSE Max(0, 100 - CategoryPenalty(by_category[cat]))]

\* the report of a code version with no issues
ScoreInit ==
    /\ criteria = DefaultCriteria
    /\ iteration_history = <<>>
    /\ issue_type_history = <<>>
    /\ score_history = <<>>
    /\ verdict = NoCall
    /\ NoSession
    /\ previous_issues = <<>>
    /\ added_issue = <<>>
    /\ issues_by_category = OrganizeByCategory(<<>>)
    /\ overall_score = CalculateOverallScore(issues_by_category)
    /\ previous_score = overall_score
    /\ category_scores = CalculateCategoryScores(issues_by_category)
    /\ current_score = <<>>
    /\ NoAnalysis
    /\ NoClassification
    /\ NoSelection
    /\ NoLegacy

\* lines 149-153: the report of the same issues with one more issue x
AnalyzeWithOneMore ==
    /\ Len(previous_issues) + Len(added_issue) < MaxScoredIssues
    /\ \E x \in ScoredIssues :
         /\ previous_issues' = previous_issues \o added_issue
         /\ added_issue' = <<x>>
         /\ issues_by_category' = OrganizeByCategory(previous_issues' \o added_issue')
         /\ overall_score' = CalculateOverallScore(issues_by_category')
         /\ category_scores' = CalculateCategoryScores(issues_by_category')
    /\ previous_score' = overall_score
    /\ current_score' = <<>>
    /\ UNCHANGED outsideScore

\* _get_current_score on the code of this report: the analysis returns the
\* report or raises; the number 0 returned on failure is the fraction 0/1
TakeCurrentScore ==
    /\ current_score = <<>>
    /\ \E outcome \in {Raise, [raised |-> FALSE, overall_score |-> overall_score]} :
          current_score' = IF outcome.raised
                           THEN <<<<GetCurrentScore(outcome), 1>>>>
                           ELSE <<GetCurrentScore(outcome)>>
    /\ UNCHANGED <<issues_by_category, overall_score, previous_issues,
                   previous_score, added_issue, category_scores>>
    /\ UNCHANGED outsideScore

ScoreNext == AnalyzeWithOneMore \/ TakeCurrentScore

ScoreSpec == ScoreInit /\ [][ScoreNext]_vars

---------------------------------------------------------------------------
(* ComprehensiveAnalysisAgent and IterativeAnalysisAgent: the findings of  *)
(* the sub-analyses, their ids and their deduplication                     *)
(*                                                                         *)
(* A raw finding is the dict an analysis returns; it has no severity key,  *)
(* so the default applies.  The md5 digest of a content string is the      *)
(* record [md5 |-> content]: equal contents have equal digests, and the    *)
(* collisions of the 12 hex digits kept are not modelled.  A content       *)
(* string is the sequence of the parts the f-string joins.                 *)

MaxFindings == 2

RawIssues == [line : {5}, description : {"eval used", "long method"},
              suggestion : {"s1", "s2"}, confidence : {5, 9}]

\* the findings the sub-analyses of the iterative agent choose from
IterativeRawIssues == {issue \in RawIssues : issue.description = "eval used"}

\* a sub-analysis, the category it files its findings under, and its place
\* in the order the agent runs the sub-analyses in
ComprehensiveSources ==
    { [source_agent |-> "static_analysis", category |-> "quality",  rank |-> 0],
      [source_agent |-> "quality_agent",   category |-> "quality",  rank |-> 1],
      [source_agent |-> "security_agent",  category |-> "security", rank |-> 2] }
IterativeSources ==
    { [source_agent |-> "quality_agent",   category |-> "quality",  rank |-> 1],
      [source_agent |-> "security_agent",  category |-> "security", rank |-> 2] }

\* what the sub-analyses of one pass deliver: at most MaxFindings findings,
\* those of an earlier sub-analysis before those of a later one
Deliveries(raw_issues, sources) ==
    LET Findings == [issue : raw_issues, source : sources]
    IN  { d \in UNION { [1..n -> Findings] : n \in 0..MaxFindings } :
            \A i, j \in DOMAIN d : i < j => d[i].source.rank <= d[j].source.rank }

ComprehensiveDeliveries == Deliveries(RawIssues, ComprehensiveSources)
IterativeDeliveries == Deliveries(IterativeRawIssues, IterativeSources)

Md5(content) == [md5 |-> content]

\* variant: the source of the finding is part of the hashed content
FromRawIssueBySource(issue, category, source_agent) ==
    [line |-> issue.line,
     description |-> issue.description,
     suggestion |-> issue.suggestion,
     severity |-> "medium",
     confidence |-> issue.confidence,
     category |-> category,
     source_agent |-> source_agent,
     issue_id |-> Md5(<<issue.line, "|", issue.description, "|", category,
                        "|", source_agent>>)]

\* comprehensive_analysis_agent.py, lines 45-65
FromRawIssue(issue, category, source_agent) ==
    [line |-> issue.line,
     description |-> issue.description,
     suggestion |-> issue.suggestion,
     severity |-> "medium",
     confidence |-> issue.confidence,
     category |-> category,
     source_agent |-> source_agent,
     issue_id |-> Md5(<<issue.line, "|", issue.description, "|", category>>)]

\* iterative_analysis_agent.py, lines 42-63
IterativeFromRawIssue(issue, category, source_agent, iter) ==
    [line |-> issue.line,
     description |-> issue.description,
     suggestion |-> issue.suggestion,
     severity |-> "medium",
     confidence |-> issue.confidence,
     category |-> category,
     source_agent |-> source_agent,
     iteration_found |-> iter,
     issue_id |-> Md5(<<issue.line, "|", issue.description, "|", issue.suggestion>>)]

\* the position of the entry of `unique` stored under id, 0 when there is none
PositionOf(unique, id) ==
    IF \E k \in DOMAIN unique : unique[k].issue_id = id
    THEN CHOOSE k \in DOMAIN unique : unique[k].issue_id = id
    ELSE 0

\* variant: a duplicate never replaces the entry
DeduplicateIssuesFirstWins(issues) ==
    LET F[n \in 0..Len(issues)] ==
            IF n = 0 THEN <<>>
            ELSE LET unique == F[n - 1]
                     issue  == issues[n]
                 IN  IF PositionOf(unique, issue.issue_id) = 0
                     THEN Append(unique, issue)
                     ELSE unique
    IN  F[Len(issues)]

\* variant: a duplicate replaces the entry whatever its confidence is
DeduplicateIssuesLastWins(issues) ==
    LET F[n \in 0..Len(issues)] ==
            IF n = 0 THEN <<>>
            ELSE LET unique == F[n - 1]
                     issue  == issues[n]
                     k      == PositionOf(unique, issue.issue_id)
                 IN  IF k = 0 THEN Append(unique, issue)
                     ELSE [unique EXCEPT ![k] = issue]
    IN  F[Len(issues)]

\* _deduplicate_issues, lines 393-407: the values of the dict, in the order
\* in which their ids were first seen
DeduplicateIssues(issues) ==
    LET F[n \in 0..Len(issues)] ==
            IF n = 0 THEN <<>>
            ELSE LET unique == F[n - 1]
                     issue  == issues[n]
                     k      == PositionOf(unique, issue.issue_id)
                 IN  IF k = 0 THEN Append(unique, issue)
                     ELSE IF issue.confidence > unique[k].confidence
                          THEN [unique EXCEPT ![k] = issue]
                          ELSE unique
    IN  F[Len(issues)]

\* _run_single_iteration, lines 226-232: the first finding of every id
RemoveDuplicates(issues) ==
    LET F[n \in 0..Len(issues)] ==
            IF n = 0 THEN <<>>
            ELSE LET unique == F[n - 1]
                     issue  == issues[n]
                 IN  IF PositionOf(unique, issue.issue_id) = 0
                     THEN Append(unique, issue)
                     ELSE unique
    IN  F[Len(issues)]

IdsOf(issues) == {issues[k].issue_id : k \in DOMAIN issues}

\* variant: a later report of an id replaces the stored entry
UpdateCumulativeOverwrite(cumulative, issues) ==
    [id \in DOMAIN cumulative \cup IdsOf(issues) |->
        IF id \in IdsOf(issues)
        THEN issues[PositionOf(issues, id)]
        ELSE cumulative[id]]

\* analyze_iteratively, lines 120-123: the dict cumulative_issues after the
\* issues of an iteration were added to it
UpdateCumulative(cumulative, issues) ==
    [id \in DOMAIN cumulative \cup IdsOf(issues) |->
        IF id \in DOMAIN cumulative
        THEN cumulative[id]
        ELSE issues[PositionOf(issues, id)]]

Agents == {"comprehensive", "iterative"}

\* one of the two agents, constructed and not yet run
AnalysisInit ==
    /\ criteria = DefaultCriteria
    /\ iteration_history = <<>>
    /\ issue_type_history = <<>>
    /\ score_history = <<>>
    /\ verdict = NoCall
    /\ NoSession
    /\ NoScoring
    /\ agent \in Agents
    /\ all_issues = <<>>
    /\ unique_issues = <<>>
    /\ cumulative_issues = <<>>
    /\ analysis_iteration = 0
    /\ previous_issue_signatures = {}
    /\ stable_iterations = 0
    /\ stopping_reason = ""
    /\ max_iterations = IterativeMaxIterations
    /\ issue_history = <<>>
    /\ analysis_result = <<>>
    /\ NoClassification
    /\ NoSelection
    /\ NoLegacy

\* analyze_comprehensively, lines 98-139: the findings of the sub-analyses
\* are collected in the order the sub-analyses run and then deduplicated.
\* One call is followed; analysis_iteration counts it.
CollectAndDeduplicate ==
    /\ agent = "comprehensive"
    /\ analysis_iteration = 0
    /\ analysis_iteration' = 1
    /\ \E d \in ComprehensiveDeliveries :
          /\ all_issues' = [i \in DOMAIN d |->
                               FromRawIssue(d[i].issue, d[i].source.category,
                                            d[i].source.source_agent)]
          /\ unique_issues' = DeduplicateIssues(all_issues')
    /\ UNCHANGED <<agent, cumulative_issues, previous_issue_signatures,
                   stable_iterations, stopping_reason, max_iterations,
                   issue_history, analysis_result>>
    /\ UNCHANGED outsideAnalysis

\* analyze_iteratively, lines 192-193: the result returned when the loop ends
Returns(rounds, reason) ==
    [raised |-> FALSE, iterations_run |-> rounds, stopping_reason |-> reason]

\* variant: an iteration without issues ends the loop before the stability test
StoppingReasonEmptyFirst(stable, issues, round, rounds) ==
    IF issues = <<>> THEN "No issues detected"
    ELSE IF stable >= 2 THEN "Issues stabilized"
    ELSE IF round = rounds THEN "Reached maximum iterations"
    ELSE ""

\* analyze_iteratively, lines 139-156 and 188-189: the reason the loop ends
\* with after this iteration, "" when it goes on
StoppingReason(stable, issues, round, rounds) ==
    IF stable >= 2 THEN "Issues stabilized"
    ELSE IF issues = <<>> THEN "No issues detected"
    ELSE IF round = rounds THEN "Reached maximum iterations"
    ELSE ""

\* analyze_iteratively, lines 104-156 and 188-193: one iteration of the loop,
\* the sub-analyses delivering one of the given deliveries.  issue_history is
\* written by the loop and read by nothing; it is followed only where asked.
RunSingleIterationFrom(deliveries, history_followed) ==
    /\ agent = "iterative"
    /\ analysis_result = <<>>
    /\ stopping_reason = ""
    /\ analysis_iteration < max_iterations
    /\ analysis_iteration' = analysis_iteration + 1
    /\ \E d \in deliveries :
          /\ all_issues' = [i \in DOMAIN d |->
                               IterativeFromRawIssue(d[i].issue, d[i].source.category,
                                                     d[i].source.source_agent,
                                                     analysis_iteration')]
          /\ unique_issues' = RemoveDuplicates(all_issues')
    /\ cumulative_issues' = UpdateCumulative(cumulative_issues, unique_issues')
    /\ issue_history' = IF history_followed
                         THEN Append(issue_history, unique_issues')
                         ELSE issue_history
    /\ LET new_issues == SelectSeq(unique_issues',
                             LAMBDA issue : issue.issue_id \notin previous_issue_signatures)
       IN  stable_iterations' = IF new_issues = <<>> THEN stable_iterations + 1 ELSE 0
    /\ stopping_reason' = StoppingReason(stable_iterations', unique_issues',
                                         analysis_iteration', max_iterations)
    /\ previous_issue_signatures' =
           IF stable_iterations' >= 2 THEN previous_issue_signatures
           ELSE IdsOf(unique_issues')
    /\ analysis_result' =
           IF stopping_reason' = "" THEN <<>>
           ELSE Returns(analysis_iteration', stopping_reason')
    /\ UNCHANGED <<agent, max_iterations>>
    /\ UNCHANGED outsideAnalysis

RunSingleIteration == RunSingleIterationFrom(IterativeDeliveries, FALSE)

AnalysisNext == CollectAndDeduplicate \/ RunSingleIteration

AnalysisSpec == AnalysisInit /\ [][AnalysisNext]_vars

---------------------------------------------------------------------------
(* The rounds of the iterative agent                                       *)
(*                                                                         *)
(* analyze_iteratively on an agent constructed with any max_iterations     *)
(* from 0 on, the quality analysis delivering up to two of three findings  *)
(* with different ids in each round, or a sub-analysis raising.  The       *)
(* issues of every round are followed in issue_history.                    *)

MaxRounds == 3

\* three findings with three different ids
RoundsRawIssues ==
    {issue \in RawIssues :
        /\ issue.confidence = 9
        /\ issue.description = "eval used" \/ issue.suggestion = "s1"}

QualityAgentOnly == {source \in IterativeSources : source.source_agent = "quality_agent"}

RoundsDeliveries ==
    UNION { [1..n -> [issue : RoundsRawIssues, source : QualityAgentOnly]] :
              n \in 0..2 }

\* IterativeAnalysisAgent(api_key, max_iterations)
RoundsInit ==
    /\ criteria = DefaultCriteria
    /\ iteration_history = <<>>
    /\ issue_type_history = <<>>
    /\ score_history = <<>>
    /\ verdict = NoCall
    /\ NoSession
    /\ NoScoring
    /\ agent = "iterative"
    /\ all_issues = <<>>
    /\ unique_issues = <<>>
    /\ cumulative_issues = <<>>
    /\ analysis_iteration = 0
    /\ previous_issue_signatures = {}
    /\ stable_iterations = 0
    /\ stopping_reason = ""
    /\ max_iterations \in 0..MaxRounds
    /\ issue_history = <<>>
    /\ analysis_result = <<>>
    /\ NoClassification
    /\ NoSelection
    /\ NoLegacy

RoundsIteration == RunSingleIterationFrom(RoundsDeliveries, TRUE)

\* analyze_iteratively, lines 104 and 159: range(1, 1) is empty, and the loop
\* variable read after the loop was never bound
ReturnWithoutRounds ==
    /\ agent = "iterative"
    /\ analysis_result = <<>>
    /\ max_iterations = 0
    /\ analysis_result' = [raised |-> TRUE, error |-> "UnboundLocalError"]
    /\ UNCHANGED <<agent, all_issues, unique_issues, cumulative_issues,
                   analysis_iteration, previous_issue_signatures, stable_iterations,
                   stopping_reason, max_iterations, issue_history>>
    /\ UNCHANGED outsideAnalysis

\* analyze_iteratively, lines 109-111: a sub-analysis of _run_single_iteration
\* raises (security_agent.py, lines 21-28: the handler of a failed API call
\* reads `response`, which that call did not bind), and nothing catches it
SubAnalysisRaises ==
    /\ agent = "iterative"
    /\ analysis_result = <<>>
    /\ analysis_iteration < max_iterations
    /\ analysis_iteration' = analysis_iteration + 1
    /\ analysis_result' = [raised |-> TRUE, error |-> "sub-analysis"]
    /\ UNCHANGED <<agent, all_issues, unique_issues, cumulative_issues,
                   previous_issue_signatures, stable_iterations,
                   stopping_reason, max_iterations, issue_history>>
    /\ UNCHANGED outsideAnalysis

RoundsNext == RoundsIteration \/ ReturnWithoutRounds \/ SubAnalysisRaises

RoundsSpec == RoundsInit /\ [][RoundsNext]_vars

---------------------------------------------------------------------------
(* The three classifiers of an issue by the keywords its text contains     *)
(*                                                                         *)
(* A text is the set of the phrases of Vocabulary that occur in it (the    *)
(* code tests `keyword in text` on the lower-cased text).  The keyword     *)
(* lists are those of the code, cut down to the phrases of Vocabulary.     *)

Vocabulary == {"injection", "eval", "long method", "parameter", "naming", "loop"}

\* the rule id of a static-analysis finding: none, or one of two rule names
RuleIds == {"", "hardcoded-password", "too-many-branches"}

ClassifiedIssues == [text : SUBSET Vocabulary, rule : RuleIds]

\* enhanced_apply_fixes.py, lines 77-101: the keyword lists of _classify_issue
TrackerKeywords ==
    [structural  |-> {"long method"},
     design      |-> {"parameter"},
     style       |-> {"naming"},
     security    |-> {"injection"},
     performance |-> {"loop"}]

\* the keyword groups of _classify_issue that a text matches
TrackerGroups(text) ==
    {g \in DOMAIN TrackerKeywords : TrackerKeywords[g] \cap text # {}}

\* comprehensive_analysis_agent.py, lines 290-316
StaticSecurityPatterns == {"injection", "eval"}
StaticCodeSmellPatterns == {"long method", "naming"}

\* the patterns of a list found in the rule id, which is part of full_text
\* (line 319): 'hardcode' is a security pattern and occurs in the rule id
\* hardcoded-password; no pattern occurs in too-many-branches
RuleMatchesSecurityPattern(rule) == rule = "hardcoded-password"

\* _classify_static_issue, lines 318-337
ClassifyStaticIssue(issue) ==
    IF StaticSecurityPatterns \cap issue.text # {}
          \/ RuleMatchesSecurityPattern(issue.rule)
    THEN "security"
    ELSE IF StaticCodeSmellPatterns \cap issue.text # {} THEN "code_smell"
    ELSE IF issue.rule # "" /\ issue.rule = "hardcoded-password" THEN "security"
    ELSE IF issue.rule # "" /\ issue.rule = "too-many-branches" THEN "code_smell"
    ELSE "quality"

\* smart_integration.py, lines 38-55: the built-in issue_classification, in
\* the order of the dict
SmartClassification ==
    << [category |-> "structural", keywords |-> {"long method"}, priority |-> "high"],
       [category |-> "design",     keywords |-> {"parameter"},   priority |-> "medium"],
       [category |-> "style",      keywords |-> {"naming"},      priority |-> "low"],
       [category |-> "security",   keywords |-> {"injection"},   priority |-> "critical"] >>

\* get_smart_issue_recommendations, lines 144-152: the first entry of the
\* classification with a keyword in the description, "design" by default
SmartCategory(text) ==
    LET hits == {k \in DOMAIN SmartClassification :
                    SmartClassification[k].keywords \cap text # {}}
    IN  IF hits = {} THEN "design"
        ELSE SmartClassification[CHOOSE k \in hits : \A l \in hits : k <= l].category

ClassifyInit ==
    /\ criteria = DefaultCriteria
    /\ iteration_history = <<>>
    /\ issue_type_history = <<>>
    /\ score_history = <<>>
    /\ verdict = NoCall
    /\ NoSession
    /\ NoScoring
    /\ NoAnalysis
    /\ classified_issue \in ClassifiedIssues
    /\ classification = <<>>
    /\ NoSelection
    /\ NoLegacy

\* RefactoringProgressTracker._categorize_issues, lines 69-70
ClassifyForTracker ==
    /\ classification' = [by |-> "_classify_issue",
                          category |-> ClassifyIssue(TrackerGroups(classified_issue.text))]
    /\ UNCHANGED classified_issue
    /\ UNCHANGED outsideClassify

\* ComprehensiveAnalysisAgent._run_static_analysis, line 246
ClassifyStatic ==
    /\ classification' = [by |-> "_classify_static_issue",
                          category |-> ClassifyStaticIssue(classified_issue)]
    /\ UNCHANGED classified_issue
    /\ UNCHANGED outsideClassify

\* get_smart_issue_recommendations, lines 139-152
ClassifySmart ==
    /\ classification' = [by |-> "get_smart_issue_recommendations",
                          category |-> SmartCategory(classified_issue.text)]
    /\ UNCHANGED classified_issue
    /\ UNCHANGED outsideClassify

ClassifyNext == ClassifyForTracker \/ ClassifyStatic \/ ClassifySmart

ClassifySpec == ClassifyInit /\ [][ClassifyNext]_vars

---------------------------------------------------------------------------
(* The choice of the stopping criteria from the issues                     *)
(*                                                                         *)
(* Three functions derive the criteria of a session from the issues of an  *)
(* analysis: analyze_issues_for_smart_criteria (utils/smart_integration),  *)
(* create_smart_stopping_criteria (main) and the module-level              *)
(* apply_fixes_smart (cli/enhanced_apply_fixes) when no criteria are       *)
(* passed.  An issue is [text, severity] here: text is the set of the      *)
(* keywords below that its lower-cased description contains.               *)

MaxSelectionIssues == 4

\* usage_examples.py, lines 91-96, and an issue that names security itself
SqlInjectionFinding == [text |-> {"injection", "vulnerability"}, severity |-> "high"]
HardcodedPassword == [text |-> {"hardcode", "password"}, severity |-> "high"]
LongMethodFinding == [text |-> {"long method"}, severity |-> "medium"]
NamingFinding == [text |-> {"naming", "convention"}, severity |-> "low"]
SecurityNote == [text |-> {"security"}, severity |-> "medium"]

SelectionIssueKinds ==
    {SqlInjectionFinding, HardcodedPassword, LongMethodFinding, NamingFinding,
     SecurityNote}

SelectionIssueLists ==
    UNION {[1..n -> SelectionIssueKinds] : n \in 0..MaxSelectionIssues}

\* results['overall_score'], on either side of 70
SelectionScores == {650, 750}

\* the keyword lists of _classify_issue, restricted to the keywords above
ClassifierKeywords ==
    [structural  |-> {"long method"},
     design      |-> {},
     style       |-> {"naming", "convention"},
     security    |-> {"security", "vulnerability", "injection", "hardcode",
                      "password"},
     performance |-> {}]

\* the category _classify_issue gives an issue of this section
ClassifierCategory(issue) ==
    ClassifyIssue({g \in DOMAIN ClassifierKeywords :
                      ClassifierKeywords[g] \cap issue.text # {}})

\* load_smart_config, lines 26-37: the built-in configuration has the default
\* profile only
BuiltInConfig == [default |-> DefaultCriteria]

\* load_smart_config, lines 18-20: a configuration file with the four profiles
FileConfig ==
    [default |-> DefaultCriteria,
     security_focused |->
        [score_threshold |-> 900, max_low_severity_issues |-> 3, max_iterations |-> 10,
         plateau_iterations |-> 2, min_improvement_per_iteration |-> 5,
         acceptable_issue_categories |-> {"style"}],
     structural_focused |->
        [score_threshold |-> 850, max_low_severity_issues |-> 3, max_iterations |-> 8,
         plateau_iterations |-> 3, min_improvement_per_iteration |-> 10,
         acceptable_issue_categories |-> {"style", "design"}],
     quality_focused |->
        [score_threshold |-> 800, max_low_severity_issues |-> 3, max_iterations |-> 10,
         plateau_iterations |-> 4, min_improvement_per_iteration |-> 20,
         acceptable_issue_categories |-> {"style"}]]

SmartConfigs == {BuiltInConfig, FileConfig}

\* criteria_config.get(profile, criteria_config["default"])
ProfileOf(config, profile) ==
    IF profile \in DOMAIN config THEN config[profile] ELSE config["default"]

\* the number of issues of a list that satisfy a test
CountIssues(issues, test) == Cardinality({i \in DOMAIN issues : test[i]})

\* smart_integration.py, lines 83 and 87: the keywords of the two counts
AnalyzeSecurityKeywords == {"security", "vulnerability", "injection", "hardcode"}
AnalyzeStructuralKeywords == {"long method", "complexity", "nesting", "too many"}

\* analyze_issues_for_smart_criteria, lines 70-108
AnalyzeIssuesForSmartCriteria(issues, score, config) ==
    LET IsHigh(issue) == issue.severity = "high"
        IsSecurity(issue) == issue.text \cap AnalyzeSecurityKeywords # {}
        IsStructural(issue) ==
            ~IsSecurity(issue) /\ issue.text \cap AnalyzeStructuralKeywords # {}
        security_count == CountIssues(issues, [i \in DOMAIN issues |-> IsSecurity(issues[i])])
        structural_count == CountIssues(issues, [i \in DOMAIN issues |-> IsStructural(issues[i])])
        high_severity_count == CountIssues(issues, [i \in DOMAIN issues |-> IsHigh(issues[i])])
    IN  IF security_count > 0 THEN ProfileOf(config, "security_focused")
        ELSE IF structural_count > 2 \/ high_severity_count > 3
            THEN ProfileOf(config, "structural_focused")
        ELSE IF score < 700 THEN ProfileOf(config, "quality_focused")
        ELSE config["default"]

\* main.py, lines 154-159: the keywords of the two counts
MainSecurityKeywords == {"security"}
MainStructuralKeywords == {"long method", "complexity", "nesting"}

\* create_smart_stopping_criteria, lines 150-199
CreateSmartStoppingCriteria(issues, score) ==
    LET IsHigh(issue) == issue.severity = "high"
        IsSecurity(issue) == issue.text \cap MainSecurityKeywords # {}
        IsStructural(issue) == issue.text \cap MainStructuralKeywords # {}
        security_count == CountIssues(issues, [i \in DOMAIN issues |-> IsSecurity(issues[i])])
        structural_count == CountIssues(issues, [i \in DOMAIN issues |-> IsStructural(issues[i])])
        high_severity_count == CountIssues(issues, [i \in DOMAIN issues |-> IsHigh(issues[i])])
    IN  IF security_count > 0 THEN
            [score_threshold |-> 900, max_low_severity_issues |-> 3,
             max_iterations |-> 10, plateau_iterations |-> 2,
             min_improvement_per_iteration |-> 5,
             acceptable_issue_categories |-> {"style"}]
        ELSE IF high_severity_count > 3 \/ structural_count > 2 THEN
            [score_threshold |-> 850, max_low_severity_issues |-> 3,
             max_iterations |-> 8, plateau_iterations |-> 3,
             min_improvement_per_iteration |-> 10,
             acceptable_issue_categories |-> {"style", "design"}]
        ELSE IF score < 700 THEN
            [score_threshold |-> 800, max_low_severity_issues |-> 3,
             max_iterations |-> 10, plateau_iterations |-> 4,
             min_improvement_per_iteration |-> 20,
             acceptable_issue_categories |-> {"style"}]
        ELSE
            [score_threshold |-> 850, max_low_severity_issues |-> 3,
             max_iterations |-> 6, plateau_iterations |-> 3,
             min_improvement_per_iteration |-> 10,
             acceptable_issue_categories |-> {"style", "design"}]

\* the module-level apply_fixes_smart, lines 744-764, called without criteria
DefaultStoppingCriteria(issues) ==
    LET IsHigh(issue) == issue.severity = "high"
        IsSecurity(issue) == issue.text \cap MainSecurityKeywords # {}
        security_count == CountIssues(issues, [i \in DOMAIN issues |-> IsSecurity(issues[i])])
        high_severity_count == CountIssues(issues, [i \in DOMAIN issues |-> IsHigh(issues[i])])
    IN  IF security_count > 0 THEN
            [DefaultCriteria EXCEPT !.score_threshold = 900, !.max_iterations = 10,
                                    !.plateau_iterations = 2]
        ELSE IF high_severity_count > 3 THEN
            [DefaultCriteria EXCEPT !.score_threshold = 850, !.max_iterations = 8,
                                    !.plateau_iterations = 3]
        ELSE DefaultCriteria

SelectionInit ==
    /\ criteria = DefaultCriteria
    /\ iteration_history = <<>>
    /\ issue_type_history = <<>>
    /\ score_history = <<>>
    /\ verdict = NoCall
    /\ NoSession
    /\ NoScoring
    /\ NoAnalysis
    /\ NoClassification
    /\ selection_issues \in SelectionIssueLists
    /\ selection_score \in SelectionScores
    /\ smart_config \in SmartConfigs
    /\ selected_criteria = <<>>
    /\ NoLegacy

\* analyze_issues_for_smart_criteria(issues, current_score)
AnalyzeIssues ==
    /\ selected_criteria' =
           [by |-> "analyze_issues_for_smart_criteria",
            criteria |-> AnalyzeIssuesForSmartCriteria(selection_issues,
                                                       selection_score, smart_config)]
    /\ UNCHANGED <<selection_issues, selection_score, smart_config, outsideSelection>>

\* create_smart_stopping_criteria(final_issues, results)
CreateCriteria ==
    /\ selected_criteria' =
           [by |-> "create_smart_stopping_criteria",
            criteria |-> CreateSmartStoppingCriteria(selection_issues,
                                                     selection_score)]
    /\ UNCHANGED <<selection_issues, selection_score, smart_config, outsideSelection>>

\* apply_fixes_smart(original_code, issues, api_key) with no stopping_criteria
DefaultCriteriaChosen ==
    /\ selected_criteria' =
           [by |-> "apply_fixes_smart",
            criteria |-> DefaultStoppingCriteria(selection_issues)]
    /\ UNCHANGED <<selection_issues, selection_score, smart_config, outsideSelection>>

SelectionNext == AnalyzeIssues \/ CreateCriteria \/ DefaultCriteriaChosen

SelectionSpec == SelectionInit /\ [][SelectionNext]_vars

---------------------------------------------------------------------------
(* EnhancedControlAgent._run_interactive_refinement and the apply_fixes of *)
(* cli/apply_fixes.py that it calls                                        *)
(*                                                                         *)
(* An issue is [line, severity], the line telling the issues of a list     *)
(* apart.  What the user types at the selection prompt is the word none or *)
(* a comma-separated list of tokens; a token is a number or something      *)
(* int() rejects.  Code versions are opaque values: the code the agent was *)
(* called with is "original", run_refactor_agent returns it, one of two    *)
(* other versions or nothing, or raises.                                   *)

MaxLegacyIssues == 2

LegacyIssueLists ==
    UNION { { l \in [1..n -> [line : 1..n, severity : {"high", "low"}]] :
                \A i \in 1..n : l[i].line = i } : n \in 0..MaxLegacyIssues }

Tokens ==
    [digits : {TRUE}, value : 0..(MaxLegacyIssues + 1)]
        \cup {[digits |-> FALSE, value |-> 0]}

\* the stripped, lower-cased answer to the selection prompt; the empty answer
\* is the text without tokens
UserInputs ==
    {[kind |-> "none", tokens |-> <<>>]}
        \cup {[kind |-> "text", tokens |-> t] : t \in UNION {[1..n -> Tokens] : n \in 0..2}}

RefactorOutcomes == {"original", "candidate_a", "candidate_b", "none", "raise"}

\* apply_fixes, line 48: int() of every token succeeds
AllIntegers(tokens) == \A i \in DOMAIN tokens : tokens[i].digits

\* apply_fixes, line 49
AllInRange(tokens, issue_list) ==
    \A i \in DOMAIN tokens : 1 <= tokens[i].value /\ tokens[i].value <= Len(issue_list)

\* sorted(set(...)), line 52
SortedSet(S) ==
    LET F[T \in SUBSET S] ==
            IF T = {} THEN <<>>
            ELSE LET m == CHOOSE x \in T : \A y \in T : x <= y
                 IN  <<m>> \o F[T \ {m}]
    IN  F[S]

\* apply_fixes, lines 62-63: the sort key
SeverityOrder(issue) ==
    CASE issue.severity = "high" -> 1
      [] issue.severity = "low" -> 3
      [] OTHER -> 2

\* list.sort by that key: stable
SortBySeverity(issue_list) ==
    SelectSeq(issue_list, LAMBDA issue : SeverityOrder(issue) = 1)
        \o SelectSeq(issue_list, LAMBDA issue : SeverityOrder(issue) = 2)
        \o SelectSeq(issue_list, LAMBDA issue : SeverityOrder(issue) = 3)

\* apply_fixes, lines 58-63
SelectedIssues(issue_list, numbers) ==
    SortBySeverity([k \in DOMAIN numbers |-> issue_list[numbers[k]]])

\* apply_fixes, lines 70-74, 83-87 and 91-95: one entry per selected issue
FeedbackFor(selected, applied, reason) ==
    [k \in DOMAIN selected |->
        [issue |-> selected[k], applied |-> applied, reason |-> reason]]

\* variant: every issue is reported as skipped
SkippedFeedbackOfAll(issue_list, numbers) ==
    FeedbackFor(issue_list, FALSE, "Issue not selected by user")

\* apply_fixes, lines 107-112: one entry per issue that was not selected
SkippedFeedback(issue_list, numbers) ==
    LET chosen == {numbers[k] : k \in DOMAIN numbers}
        F[n \in 0..Len(issue_list)] ==
            IF n = 0 THEN <<>>
            ELSE IF n \in chosen THEN F[n - 1]
            ELSE Append(F[n - 1], issue_list[n])
    IN  FeedbackFor(F[Len(issue_list)], FALSE, "Issue not selected by user")

\* _run_interactive_refinement is called with the issues of the analysis
LegacyInit ==
    /\ criteria = DefaultCriteria
    /\ iteration_history = <<>>
    /\ issue_type_history = <<>>
    /\ score_history = <<>>
    /\ verdict = NoCall
    /\ NoSession
    /\ NoScoring
    /\ NoAnalysis
    /\ NoClassification
    /\ NoSelection
    /\ legacy_pc = "select"
    /\ input_issues \in LegacyIssueLists
    /\ user_input = [kind |-> "unread", tokens |-> <<>>]
    /\ selected_numbers = <<>>
    /\ new_code = "unset"
    /\ feedback = <<>>
    /\ refactored_code = "original"
    /\ final_code = "unset"
    /\ confirmed_candidate = "none"
    /\ refactor_calls = 0

\* apply_fixes, lines 23-63: no issues, or the selection read and parsed
ReadSelection ==
    /\ legacy_pc = "select"
    /\ IF input_issues = <<>>
       THEN /\ legacy_pc' = "returned"
            /\ UNCHANGED <<user_input, selected_numbers>>
       ELSE \E input \in UserInputs :
              /\ user_input' = input
              /\ IF /\ input.kind # "none"
                    /\ input.tokens # <<>>
                    /\ AllIntegers(input.tokens)
                    /\ AllInRange(input.tokens, input_issues)
                 THEN /\ selected_numbers' =
                             SortedSet({input.tokens[i].value : i \in DOMAIN input.tokens})
                      /\ legacy_pc' = "fixer"
                 ELSE /\ legacy_pc' = "returned"
                      /\ UNCHANGED selected_numbers
    /\ UNCHANGED <<input_issues, new_code, feedback, refactored_code, final_code,
                   confirmed_candidate, refactor_calls>>
    /\ UNCHANGED outsideLegacy

\* apply_fixes, lines 66-77 and 107-112: the fixer is run on the selection
RunRefactorAgent ==
    /\ legacy_pc = "fixer"
    /\ refactor_calls' = refactor_calls + 1
    /\ \E outcome \in RefactorOutcomes :
          IF outcome = "raise"
          THEN /\ legacy_pc' = "raised"
               /\ UNCHANGED <<new_code, feedback>>
          ELSE /\ new_code' = outcome
               /\ IF outcome = "none" \/ outcome = "original"
                  THEN /\ feedback' =
                              FeedbackFor(SelectedIssues(input_issues, selected_numbers),
                                          FALSE, "No changes produced by refactor agent")
                              \o SkippedFeedback(input_issues, selected_numbers)
                       /\ legacy_pc' = "returned"
                  ELSE /\ legacy_pc' = "confirm"
                       /\ UNCHANGED feedback
    /\ UNCHANGED <<input_issues, user_input, selected_numbers, refactored_code,
                   final_code, confirmed_candidate>>
    /\ UNCHANGED outsideLegacy

\* apply_fixes, lines 80-112 and 127: the changes shown are confirmed or not
ConfirmApplying ==
    /\ legacy_pc = "confirm"
    /\ \E confirm \in {"y", "n"} :
          /\ feedback' =
                 FeedbackFor(SelectedIssues(input_issues, selected_numbers),
                             confirm = "y",
                             IF confirm = "y" THEN "Fix applied successfully"
                             ELSE "User discarded the changes")
                 \o SkippedFeedback(input_issues, selected_numbers)
          /\ confirmed_candidate' = IF confirm = "y" THEN new_code ELSE confirmed_candidate
    /\ legacy_pc' = "returned"
    /\ UNCHANGED <<input_issues, user_input, selected_numbers, new_code,
                   refactored_code, final_code, refactor_calls>>
    /\ UNCHANGED outsideLegacy

\* the issues of the entries of a feedback list that are marked applied
AppliedIssues(feedback_list) ==
    LET applied == SelectSeq(feedback_list, LAMBDA f : f.applied)
    IN  [k \in DOMAIN applied |-> applied[k].issue]

\* _run_interactive_refinement, lines 225-229: the code after the fixes
RefactorApplied ==
    /\ legacy_pc = "returned"
    /\ IF AppliedIssues(feedback) = <<>>
       THEN /\ refactored_code' = "original"
            /\ legacy_pc' = "refined"
            /\ UNCHANGED refactor_calls
       ELSE /\ refactor_calls' = refactor_calls + 1
            /\ \E outcome \in RefactorOutcomes :
                  IF outcome = "raise"
                  THEN /\ legacy_pc' = "raised"
                       /\ UNCHANGED refactored_code
                  ELSE /\ refactored_code' =
                              IF outcome = "none" THEN "original" ELSE outcome
                       /\ legacy_pc' = "refined"
    /\ UNCHANGED <<input_issues, user_input, selected_numbers, new_code, feedback,
                   final_code, confirmed_candidate>>
    /\ UNCHANGED outsideLegacy

\* _run_interactive_refinement, lines 231-295: the results returned; every
\* branch, whether the re-analysis raises or not, returns refactored_code
ReturnResults ==
    /\ legacy_pc = "refined"
    /\ final_code' = IF refactored_code # "original" THEN refactored_code
                     ELSE "original"
    /\ legacy_pc' = "done"
    /\ UNCHANGED <<input_issues, user_input, selected_numbers, new_code, feedback,
                   refactored_code, confirmed_candidate, refactor_calls>>
    /\ UNCHANGED outsideLegacy

LegacyNext ==
    \/ ReadSelection
    \/ RunRefactorAgent
    \/ ConfirmApplying
    \/ RefactorApplied
    \/ ReturnResults

LegacySpec == LegacyInit /\ [][LegacyNext]_vars



---------------------------------------------------------------------------
(* A session with one issue that the fixer removes                         *)
(*                                                                         *)
(* The same method, started with a single security finding of high         *)
(* severity.  The fixer returns changed code, the re-analysis of that code *)
(* finds nothing, and its score is the one _calculate_overall_score gives  *)
(* a report without issues.                                                *)

SingleIssue == [groups |-> {"security"}, severity |-> "high", line |-> 5]

\* the overall score of a report without issues, in tenths
CleanScore == 10 * CalculateOverallScore(OrganizeByCategory(<<>>))[1]

\* run_comprehensive_analysis: some score for the original code, the clean
\* score for the fixed code
SingleScoreOutcomes ==
    IF current_code = "original"
    THEN {o \in ScoreOutcomes : ~o.raised}
    ELSE {[raised |-> FALSE, overall_score |-> CleanScore]}

\* run_refactor_agent returning changed code
SingleFixerOutcomes == {"candidate"}

\* _reanalyze_code on the fixed code: no issue left
SingleIssueOutcomes == {[raised |-> FALSE, final_issues |-> <<>>]}

SingleInit == SessionStart({DefaultCriteria, CapTwoCriteria}, {<<SingleIssue>>})

SingleIterationStart == IterationStartWith(SingleScoreOutcomes, MaxSessionIterations)

SingleApplyFixes == ApplyFixesWith(SingleFixerOutcomes)

SingleConfirmChanges == ConfirmChangesWith(SingleIssueOutcomes)

SingleFinish == FinishWith(SingleScoreOutcomes)

SingleNext ==
    \/ ApplyFixesSmart
    \/ SingleIterationStart
    \/ LoopExit
    \/ ContinueAnyway
    \/ SelectIssues
    \/ SingleApplyFixes
    \/ SingleConfirmChanges
    \/ AskContinue
    \/ SingleFinish

SingleSpec == SingleInit /\ [][SingleNext]_vars

---------------------------------------------------------------------------
(* Properties of the tracker (TrackerSpec) *)

\* a should_stop_refactoring call has returned since the last add_iteration
Evaluated == verdict # NoCall /\ ~verdict.raised

CurrentIssues == iteration_history[Len(iteration_history)].issues
CurrentScore == iteration_history[Len(iteration_history)].score

\* the stop conditions, as the tracker's state decides them
Holds(reason) ==
    CASE reason = "NoIssues" -> CurrentIssues = <<>>
      [] reason = "ThresholdReached" ->
            /\ CurrentScore >= criteria.score_threshold
            /\ TotalUnacceptable(CategorizeIssues(CurrentIssues), criteria)
                  <= criteria.max_low_severity_issues
      [] reason = "OnlyLowSeverity" -> OnlyLowSeverity(CurrentIssues)
      [] reason = "Plateau" -> HasScorePlateau(score_history, criteria)
      [] reason = "DiminishingReturns" -> HasDiminishingReturns(score_history)
      [] reason = "MaxIterationsReached" ->
            Len(iteration_history) >= criteria.max_iterations
      [] reason = "IssueCycling" -> HasIssueCycling(issue_type_history)

\* the first condition of `order` that holds, "Continue" when none does
FirstOf(order) ==
    IF \E i \in DOMAIN order : Holds(order[i])
    THEN order[CHOOSE i \in DOMAIN order :
                  Holds(order[i]) /\ \A j \in 1..(i - 1) : ~Holds(order[j])]
    ELSE "Continue"

SpecOrder == <<"NoIssues", "ThresholdReached", "OnlyLowSeverity", "Plateau",
               "DiminishingReturns", "MaxIterationsReached", "IssueCycling">>

CodeOrder == <<"ThresholdReached", "OnlyLowSeverity", "Plateau",
               "MaxIterationsReached", "DiminishingReturns", "IssueCycling">>

\* C1 as stated: the verdict names the first condition that holds in the order
\* NoIssues, ThresholdReached, OnlyLowSeverity, Plateau, DiminishingReturns,
\* MaxIterationsReached, IssueCycling.  Stated here for snapshots that have
\* issues (the zero-issue snapshot is C2's case).
C1_SpecOrder ==
    (Evaluated /\ iteration_history # <<>> /\ CurrentIssues # <<>>) =>
        verdict.reason = FirstOf(SpecOrder)

\* C1 amended: with at least one snapshot recorded, the verdict names the first
\* condition that holds in the order ThresholdReached, OnlyLowSeverity, Plateau,
\* MaxIterationsReached, DiminishingReturns, IssueCycling, and stop is true exactly
\* when one holds; so when DiminishingReturns and MaxIterationsReached both hold
\* the reason is never DiminishingReturns.
C1_CodeOrder ==
    (Evaluated /\ iteration_history # <<>>) =>
        /\ verdict.reason = FirstOf(CodeOrder)
        /\ verdict.stop = (verdict.reason # "Continue")
        /\ (Holds("DiminishingReturns") /\ Holds("MaxIterationsReached"))
              => verdict.reason # "DiminishingReturns"

\* the iteration cap reported although diminishing returns holds too
C1_Witness ==
    /\ Evaluated /\ iteration_history # <<>>
    /\ Holds("DiminishingReturns") /\ Holds("MaxIterationsReached")
    /\ verdict.reason = "MaxIterationsReached"

\* C2 as stated: when the last recorded snapshot has zero issues the verdict is
\* STOPPED with reason NoIssues.
C2_NoIssuesReason ==
    (Evaluated /\ iteration_history # <<>> /\ CurrentIssues = <<>>) =>
        verdict.stop /\ verdict.reason = "NoIssues"

\* C2 amended: when the last recorded snapshot has zero issues the verdict is
\* STOPPED, whatever the score, the history and the criteria are; the reason is
\* ThresholdReached when the score is at or above the threshold (and
\* max_low_severity_issues is not negative) and OnlyLowSeverity otherwise, never
\* Plateau or a later one.
C2_ZeroIssuesStop ==
    (Evaluated /\ iteration_history # <<>> /\ CurrentIssues = <<>>) =>
        /\ verdict.stop
        /\ verdict.reason =
              IF CurrentScore >= criteria.score_threshold
                 /\ 0 <= criteria.max_low_severity_issues
              THEN "ThresholdReached" ELSE "OnlyLowSeverity"

\* zero issues below the threshold, on a plateau: reported as OnlyLowSeverity
C2_Witness ==
    /\ Evaluated /\ iteration_history # <<>> /\ CurrentIssues = <<>>
    /\ Holds("Plateau")
    /\ verdict.reason = "OnlyLowSeverity"

\* C3 as stated: on a tracker with no snapshot recorded, should_stop_refactoring
\* returns stop = false and does not fail.
C3_EmptyHistoryActive ==
    (verdict # NoCall /\ iteration_history = <<>>) =>
        ~verdict.raised /\ ~verdict.stop /\ verdict.reason = "Continue"

---------------------------------------------------------------------------
(* Properties of the session (Spec) *)


C5_StopTerminates ==
    verdict.stop => pc \in {"ask_anyway", "final", "done"}

\* C5 amended: once should_stop_refactoring returns stop = true after a record,
\* the session asks "Continue refactoring anyway?" and terminates, with no fixer
\* call and no further record, unless the answer is 'y'.
C5_StopTerminatesUnlessOverridden ==
    /\ (verdict.stop /\ pc \notin {"ask_anyway", "final", "done"})
          => continue_anyway = "y"
    /\ (verdict.stop /\ continue_anyway = "n") => pc \in {"final", "done"}

\* a stop verdict, declined by the user, ends the session before any fixer call
C5_Witness ==
    /\ verdict.stop
    /\ continue_anyway = "n"
    /\ pc = "done"
    /\ fixer_calls = 0

\* the analyzer never failed and gave every code version one score throughout
\* the session
ConsistentScores ==
    /\ final_score \in SessionScores
    /\ \A i \in DOMAIN score_history : score_history[i] \in SessionScores
    /\ \A i, j \in DOMAIN score_history :
          code_history[i] = code_history[j] => score_history[i] = score_history[j]
    /\ \A i \in DOMAIN score_history :
          code_history[i] = current_code => score_history[i] = final_score

\* C6 as stated: the final score is greater than or equal to every score
\* recorded during the session.  Stated for the sessions in which the analyzer
\* never failed and gave every code version one score, so that only the choice
\* of the returned version can refute it.
C6_Ratchet ==
    (pc = "done" /\ ConsistentScores) =>
        \A i \in DOMAIN score_history : final_score >= score_history[i]

\* C6 amended: the code returned at the end of a session is the current code,
\* that is the last candidate the user confirmed (the original code when none
\* was confirmed), whether or not an earlier version scored higher.
C6_ReturnsLastConfirmed ==
    pc = "done" => current_code = confirmed_code

\* the session returns a confirmed candidate that scores below a recorded score
C6_Witness ==
    /\ pc = "done"
    /\ current_code = "candidate"
    /\ confirmed_code = "candidate"
    /\ ConsistentScores
    /\ \E i \in DOMAIN score_history : final_score < score_history[i]

\* C7 as stated: no error of the fixer or of the analyzer leaves the session.
C7_NeverRaises ==
    pc # "raised"

\* C8 as stated: when the analyzer fails in an iteration, the snapshot recorded
\* for it has the score of the previous snapshot, and the issues that remained
\* before a failed re-analysis still remain after it.
C8_CarriedForward ==
    /\ ("score" \in analysis_failed /\ Len(score_history) >= 2) =>
          score_history[Len(score_history)] = score_history[Len(score_history) - 1]
    /\ "reanalysis" \in analysis_failed => remaining_issues # <<>>

\* C8 amended: when the analyzer fails in _get_current_score the snapshot
\* recorded for that iteration has score 0, with the issues that remain; when it
\* fails in _reanalyze_code no issue remains, so the loop ends at its next test.
\* Neither failure leaves the session as an error.
C8_FailureRecorded ==
    /\ "score" \in analysis_failed =>
          /\ score_history[Len(score_history)] = 0
          /\ iteration_history[Len(iteration_history)].issues # <<>>
    /\ "reanalysis" \in analysis_failed =>
          /\ remaining_issues = <<>>
          /\ pc \in {"loop", "final", "done"}

\* a failed score analysis after a snapshot with a score above 0
C8_Witness ==
    /\ "score" \in analysis_failed
    /\ Len(score_history) >= 2
    /\ score_history[Len(score_history) - 1] > 0
    /\ score_history[Len(score_history)] = 0

---------------------------------------------------------------------------
(* Claims about the overall score                                          *)

\* comparison of two scores given as fractions with positive denominators
RatLeq(a, b) == a[1] * b[2] <= b[1] * a[2]
RatEq(a, b) == a[1] * b[2] = b[1] * a[2]

ReportIssues == previous_issues \o added_issue

RECURSIVE PenaltySum(_)
\* the sum over a flat issue list of categoryWeight x severityWeight x
\* confidence, in twentieths of a point
PenaltySum(issues) ==
    IF issues = <<>> THEN 0
    ELSE Penalty(Head(issues).category, Head(issues)) + PenaltySum(Tail(issues))

\* C9: the overall score is monotonic: the score of a report with one more
\* issue x (any category, severity and confidence in [0,1]) is never above
\* the score of the report without x.
C9_Monotonic ==
    added_issue # <<>> => RatLeq(overall_score, previous_score)

InRange(score) == score[1] >= 0 /\ score[1] <= 100 * score[2]

---------------------------------------------------------------------------
(* Claims about the ids of the findings and their deduplication            *)
(* (AnalysisSpec)                                                          *)

SameText(a, b) ==
    /\ a.line = b.line
    /\ a.description = b.description
    /\ a.suggestion = b.suggestion

\* C12 as stated: the id of an issue is a function of (line, description,
\* suggestion) only: two findings of a pass with equal line, description and
\* suggestion have the same id, whatever analysis and category they come from.
C12_IdOfLineDescriptionSuggestion ==
    \A i, j \in DOMAIN all_issues :
        SameText(all_issues[i], all_issues[j])
            => all_issues[i].issue_id = all_issues[j].issue_id

\* C12 amended: in ComprehensiveAnalysisAgent the id of an issue is a function
\* of (line, description, category) only: two findings with equal line,
\* description and category have the same id whatever their suggestion,
\* confidence and source are, and two findings of different categories have
\* different ids.  In IterativeAnalysisAgent the id is a function of (line,
\* description, suggestion) only, whatever analysis, category or iteration
\* produced the finding.
C12_IdOfLineDescriptionCategory ==
    /\ agent = "comprehensive" =>
          \A i, j \in DOMAIN all_issues :
              LET a == all_issues[i]
                  b == all_issues[j]
              IN  /\ (a.line = b.line /\ a.description = b.description
                        /\ a.category = b.category) => a.issue_id = b.issue_id
                  /\ a.category # b.category => a.issue_id # b.issue_id
    /\ agent = "iterative" =>
          /\ \A i, j \in DOMAIN all_issues :
                SameText(all_issues[i], all_issues[j])
                    => all_issues[i].issue_id = all_issues[j].issue_id
          /\ \A i \in DOMAIN all_issues : \A id \in DOMAIN cumulative_issues :
                SameText(all_issues[i], cumulative_issues[id])
                    => all_issues[i].issue_id = id

\* one pass of the comprehensive agent delivers the same line, description
\* and suggestion under two categories
C12_Witness ==
    /\ agent = "comprehensive"
    /\ \E i, j \in DOMAIN all_issues :
          /\ SameText(all_issues[i], all_issues[j])
          /\ all_issues[i].category # all_issues[j].category
          /\ all_issues[i].issue_id # all_issues[j].issue_id

\* the positions in the pass of the findings that have this id
Reports(id) == {i \in DOMAIN all_issues : all_issues[i].issue_id = id}

\* the first of the findings of the highest confidence among those of this id
BestReport(id) ==
    CHOOSE i \in Reports(id) :
        /\ \A j \in Reports(id) : all_issues[j].confidence <= all_issues[i].confidence
        /\ \A j \in Reports(id) :
              all_issues[j].confidence = all_issues[i].confidence => i <= j

\* the first of the findings of this id
FirstReport(id) == CHOOSE i \in Reports(id) : \A j \in Reports(id) : i <= j

\* the deduplicated findings have the ids of the pass, each once
OneEntryPerId ==
    /\ IdsOf(unique_issues) = IdsOf(all_issues)
    /\ \A k, l \in DOMAIN unique_issues :
          unique_issues[k].issue_id = unique_issues[l].issue_id => k = l

\* C13 as stated: within one merge, of several findings that share an id the
\* one kept is the one with the highest confidence, and among equal
\* confidences the first seen (in either agent).
C13_HighestConfidenceKept ==
    /\ OneEntryPerId
    /\ \A k \in DOMAIN unique_issues :
          unique_issues[k] = all_issues[BestReport(unique_issues[k].issue_id)]

\* C13 amended: in ComprehensiveAnalysisAgent._deduplicate_issues, of several
\* findings that share an id the one kept is the one with the highest
\* confidence, and among equal confidences the first seen; in
\* IterativeAnalysisAgent._run_single_iteration the one kept is the first seen,
\* whatever the confidences are.
C13_HighestConfidenceKeptComprehensive ==
    /\ OneEntryPerId
    /\ agent = "comprehensive" =>
          \A k \in DOMAIN unique_issues :
              unique_issues[k] = all_issues[BestReport(unique_issues[k].issue_id)]
    /\ agent = "iterative" =>
          \A k \in DOMAIN unique_issues :
              unique_issues[k] = all_issues[FirstReport(unique_issues[k].issue_id)]

\* the comprehensive agent keeps the second of two findings of one id, the one
\* of the higher confidence
C13_Witness ==
    /\ agent = "comprehensive"
    /\ Len(all_issues) = 2
    /\ all_issues[1].issue_id = all_issues[2].issue_id
    /\ all_issues[1].confidence < all_issues[2].confidence
    /\ unique_issues = <<all_issues[2]>>

\* C14: across the iterations of analyze_iteratively the cumulative issue map
\* is first-seen-wins and never shrinks: every step keeps every id of the map
\* with the entry stored under it, every id an iteration reports is in the
\* map after that iteration, and an id that is new to the map is stored with
\* the finding of this iteration, also when a later iteration reports the
\* same id with a different confidence.
C14_FirstSeenWins ==
    [][agent = "iterative" =>
         /\ \A id \in DOMAIN cumulative_issues :
               /\ id \in DOMAIN cumulative_issues'
               /\ cumulative_issues'[id] = cumulative_issues[id]
         /\ IdsOf(all_issues') \subseteq DOMAIN cumulative_issues'
         /\ \A id \in (DOMAIN cumulative_issues') \ (DOMAIN cumulative_issues) :
               /\ cumulative_issues'[id].iteration_found = analysis_iteration'
               /\ \E k \in DOMAIN unique_issues' :
                     unique_issues'[k] = cumulative_issues'[id]]_vars

\* a later iteration reports, with a different confidence, an id that the map
\* holds from an earlier iteration
C14_Witness ==
    /\ agent = "iterative"
    /\ \E i \in DOMAIN all_issues :
          LET id == all_issues[i].issue_id
          IN  /\ id \in DOMAIN cumulative_issues
              /\ cumulative_issues[id].iteration_found < analysis_iteration
              /\ cumulative_issues[id].confidence # all_issues[i].confidence

\* the findings of the pass, delivered in every order
Reorderings ==
    { [i \in DOMAIN all_issues |-> all_issues[f[i]]] :
          f \in Permutations(DOMAIN all_issues) }

AsSet(issues) == {issues[k] : k \in DOMAIN issues}

\* the confidence retained for every id
RetainedConfidence(issues) ==
    {<<issues[k].issue_id, issues[k].confidence>> : k \in DOMAIN issues}

\* C15 as stated: the deduplicated issue set of one pass of the comprehensive
\* agent does not depend on the order in which the findings were delivered:
\* every permutation of the same findings yields the same set of retained
\* issues, with the same ids and the same retained fields.
C15_OrderIndependent ==
    agent = "comprehensive" =>
        \A delivered \in Reorderings :
            AsSet(DeduplicateIssues(delivered)) = AsSet(unique_issues)

\* C15 amended: the ids retained by one pass of the comprehensive agent, and
\* the confidence retained for each id (the highest one reported), do not
\* depend on the order in which the findings were delivered; the other
\* retained fields are those of the first delivered finding of that
\* confidence, so they depend on the order when findings of one id tie.
C15_IdsAndConfidenceOrderIndependent ==
    agent = "comprehensive" =>
        \A delivered \in Reorderings :
            /\ IdsOf(DeduplicateIssues(delivered)) = IdsOf(unique_issues)
            /\ RetainedConfidence(DeduplicateIssues(delivered))
                  = RetainedConfidence(unique_issues)

\* two findings of one id and one confidence with different suggestions:
\* the first delivered is the one retained
C15_Witness ==
    /\ agent = "comprehensive"
    /\ Len(all_issues) = 2
    /\ all_issues[1].issue_id = all_issues[2].issue_id
    /\ all_issues[1].confidence = all_issues[2].confidence
    /\ all_issues[1].suggestion # all_issues[2].suggestion
    /\ unique_issues = <<all_issues[1]>>

---------------------------------------------------------------------------
(* Claims about the classifiers (ClassifySpec)                             *)

\* the text of the issue contains a security keyword of the classifier that
\* produced the classification
MatchesSecurityKeyword ==
    CASE classification.by = "_classify_issue" ->
            TrackerKeywords.security \cap classified_issue.text # {}
      [] classification.by = "_classify_static_issue" ->
            StaticSecurityPatterns \cap classified_issue.text # {}
      [] classification.by = "get_smart_issue_recommendations" ->
            \E k \in DOMAIN SmartClassification :
                /\ SmartClassification[k].category = "security"
                /\ SmartClassification[k].keywords \cap classified_issue.text # {}

\* C16: classification gives security absolute precedence: every issue whose
\* text matches a security keyword is classified as security, also when it
\* matches structural, design, style or performance keywords as well.
C16_SecurityPrecedence ==
    (classification # <<>> /\ MatchesSecurityKeyword)
        => classification.category = "security"
---------------------------------------------------------------------------
(* Claims about sessions at the edges of their inputs (Spec)               *)

\* the criteria the specification calls invalid (scores in tenths)
InvalidCriteria(crit) ==
    \/ crit.max_iterations <= 0
    \/ crit.score_threshold < 0
    \/ crit.score_threshold > 1000

\* C17 as stated: invalid criteria (max_iterations <= 0, or score_threshold
\* outside [0,100]) are rejected before the loop starts: no snapshot is recorded
\* and neither the fixer nor the analyzer is called.
C17_RejectedBeforeLoop ==
    InvalidCriteria(criteria) =>
        /\ iteration_history = <<>>
        /\ fixer_calls = 0

\* C17 amended: invalid criteria are not rejected.  The session runs its first
\* iteration, which calls the analyzer and records one snapshot per iteration;
\* a score_threshold above 100 is never reached, the evaluation of every
\* iteration under max_iterations <= 0 recommends stopping, and the fixer is
\* called only in iterations where the user overrides that recommendation.
C17_StopRecommendedNotRejected ==
    (InvalidCriteria(criteria) /\ iteration >= 1) =>
        /\ Len(iteration_history) = iteration
        /\ ~verdict.raised
        /\ verdict.stop
        /\ verdict.reason # "ThresholdReached"
        /\ fixer_calls <= overrides

\* a finished session under invalid criteria that recorded a snapshot, was
\* stopped by the iteration cap of 0, and called the fixer after an override
C17_Witness ==
    /\ InvalidCriteria(criteria)
    /\ pc = "done"
    /\ Len(iteration_history) = 1
    /\ verdict.reason = "MaxIterationsReached"
    /\ overrides = 1
    /\ fixer_calls = 1
\* a session started with zero issues: remaining_issues changes only after the
\* first iteration has begun, so before it they are the issues passed in
StartedWithZeroIssues == iteration = 0 /\ remaining_issues = <<>>

\* C18 as stated: a session started with zero issues returns immediately,
\* without calling the fixer: the stop reason is NoIssues, the history has
\* exactly one entry, and the final code equals the initial code.
C18_NoIssuesOneEntry ==
    (StartedWithZeroIssues /\ pc = "done") =>
        /\ fixer_calls = 0
        /\ verdict.reason = "NoIssues"
        /\ Len(iteration_history) = 1
        /\ current_code = "original"

\* C18 amended: a session started with zero issues returns immediately, without
\* calling the fixer or the analyzer: no stopping decision is taken, the
\* history and the feedback are empty, and the final code equals the initial
\* code.
C18_ReturnsAtOnceEmptyHistory ==
    StartedWithZeroIssues =>
        /\ pc \in {"start", "done"}
        /\ fixer_calls = 0
        /\ analysis_failed = {}
        /\ verdict = NoCall
        /\ iteration_history = <<>>
        /\ score_history = <<>>
        /\ total_feedback = <<>>
        /\ current_code = "original"

\* a session started with zero issues that has returned
C18_Witness == StartedWithZeroIssues /\ pc = "done"
---------------------------------------------------------------------------
(* Claims about a session whose fixer never changes the code (StallSpec)   *)

\* every score recorded so far is the same
ConstantScores == \A i, j \in DOMAIN score_history : score_history[i] = score_history[j]

\* the reasons that depend on the score and the issues of the code as it is,
\* not on the progress of the session
StateReasons == {"ThresholdReached", "OnlyLowSeverity"}

\* C19 as stated: when the fixer returns unchanged code in every iteration and
\* max_iterations = 8 (other criteria at their defaults), the session stops at
\* iteration 8, not earlier, with reason MaxIterationsReached, and the final
\* code equals the initial code.  (Stops that the unchanged code earns by its
\* score or its issues alone are left aside.)
C19_StopsAtEight ==
    (verdict.stop /\ verdict.reason \notin StateReasons) =>
        /\ Len(iteration_history) = 8
        /\ verdict.reason = "MaxIterationsReached"
        /\ current_code = "original"

\* C19 amended: when the fixer returns unchanged code in every iteration and the
\* score does not change, with max_iterations = 8 (other criteria at their
\* defaults), no stop for lack of progress is recommended in iterations 1 and 2,
\* every later evaluation recommends stopping, in iteration 3 with reason
\* DiminishingReturns and from iteration 4 on with reason Plateau (unless
\* ThresholdReached or OnlyLowSeverity holds), never with reason
\* MaxIterationsReached; the final code and the final score equal the initial
\* code and the initial score.
C19_StopsAtThree ==
    /\ ConstantScores
    /\ current_code = "original"
    /\ verdict.reason # "MaxIterationsReached"
    /\ (Len(iteration_history) < 3 /\ verdict.stop) =>
           verdict.reason \in StateReasons
    /\ Len(iteration_history) = 3 =>
           /\ verdict.stop
           /\ verdict.reason \in StateReasons \cup {"DiminishingReturns"}
    /\ Len(iteration_history) > 3 =>
           /\ verdict.stop
           /\ verdict.reason \in StateReasons \cup {"Plateau"}
    /\ (pc = "done" /\ iteration >= 1) => final_score = score_history[1]

\* a session that went on to iteration 8 over the user's overrides and ended
\* there, the code unchanged, with a reason other than the iteration cap
C19_Witness ==
    /\ pc = "done"
    /\ iteration = 8
    /\ Len(iteration_history) = 8
    /\ fixer_calls = 7
    /\ verdict.stop
    /\ verdict.reason = "Plateau"
    /\ current_code = "original"
---------------------------------------------------------------------------
(* Claims about a tracker whose snapshots alternate (CyclingSpec)          *)

\* the category signatures recorded are {structural}, {design}, {structural}, ...
AlternatingSignatures ==
    \A i \in DOMAIN issue_type_history :
        Signature(issue_type_history[i]) =
            IF i % 2 = 1 THEN {"structural"} ELSE {"design"}

\* the rise of the score in iteration i, in tenths
Rise(i) == score_history[i] - score_history[i - 1]

\* C20 as stated: when the category signature of the recorded snapshots
\* alternates {structural}, {design}, {structural}, {design} over 4 iterations
\* with no score change, the evaluation does not stop in the first 3 iterations
\* and stops with reason IssueCycling at iteration 4.
C20_CyclingAtFour ==
    (Evaluated /\ AlternatingSignatures /\ ConstantScores) =>
        /\ Len(iteration_history) <= 3 => ~verdict.stop
        /\ Len(iteration_history) = 4 =>
               verdict.stop /\ verdict.reason = "IssueCycling"

\* C20 amended: when the category signature of the recorded snapshots alternates
\* {structural}, {design}, {structural}, {design} with no score change, the
\* evaluation (default criteria) does not stop in the first 2 iterations, stops
\* with reason DiminishingReturns at iteration 3 and with reason Plateau from
\* iteration 4 on.  IssueCycling is the reason at iteration 4 when the last
\* score rose by at least min_improvement_per_iteration, and it is never the
\* reason before iteration 4 or when the last two rises are both below 0.5.
C20_CyclingOnlyWhenScoreMoves ==
    Evaluated =>
        /\ AlternatingSignatures
        /\ ConstantScores =>
               /\ Len(iteration_history) <= 2 => ~verdict.stop
               /\ Len(iteration_history) = 3 =>
                      verdict.stop /\ verdict.reason = "DiminishingReturns"
               /\ Len(iteration_history) >= 4 =>
                      verdict.stop /\ verdict.reason = "Plateau"
        /\ verdict.reason = "IssueCycling" =>
               /\ verdict.stop
               /\ Len(iteration_history) >= 4
               /\ \E i \in (Len(score_history) - 1)..Len(score_history) :
                      Rise(i) >= DiminishingLimit
        /\ ( /\ Len(iteration_history) = 4
             /\ Rise(4) >= criteria.min_improvement_per_iteration ) =>
               verdict.stop /\ verdict.reason = "IssueCycling"

\* four alternating snapshots of one score, evaluated: stopped for the plateau
C20_Witness ==
    /\ Evaluated
    /\ Len(iteration_history) = 4
    /\ AlternatingSignatures
    /\ ConstantScores
    /\ verdict.stop
    /\ verdict.reason = "Plateau"
---------------------------------------------------------------------------
(* Claims about a tracker whose score rises slowly (SlowSpec)              *)

\* the scores 60, 62, 62.5, 63 recorded in this order, and evaluated
SlowRiseEvaluated == Evaluated /\ score_history = <<600, 620, 625, 630>>

\* C21 as stated: with plateau_iterations = 3 and
\* min_improvement_per_iteration = 1.0, recording the scores 60, 62, 62.5, 63
\* (issues not all of low severity, threshold not reached) makes
\* should_stop_refactoring stop with reason Plateau after the 4th score.
C21_PlateauAfterFourth ==
    SlowRiseEvaluated => verdict.stop /\ verdict.reason = "Plateau"

\* C21 amended: with plateau_iterations = 3 and
\* min_improvement_per_iteration = 1.0, after the scores 60, 62, 62.5, 63 the
\* reason is not Plateau: the first of the three rises of the window is 2.0.
\* Nor do diminishing returns hold (the last two rises are 0.5, not below it):
\* the evaluation stops exactly when the last 4 snapshots show at most 2
\* distinct category signatures, with reason IssueCycling.
C21_NoPlateauAfterFourth ==
    SlowRiseEvaluated =>
        /\ ~verdict.analysis.score_plateaued
        /\ ~verdict.analysis.diminishing_returns
        /\ verdict.reason # "Plateau"
        /\ verdict.stop <=>
               Cardinality({Signature(issue_type_history[i]) : i \in 1..4}) <= 2
        /\ verdict.stop => verdict.reason = "IssueCycling"

\* the four scores recorded with three distinct signatures: no stop
C21_Witness ==
    /\ SlowRiseEvaluated
    /\ Cardinality({Signature(issue_type_history[i]) : i \in 1..4}) = 3
    /\ ~verdict.stop
    /\ verdict.reason = "Continue"
---------------------------------------------------------------------------
(* Claims about a session with one issue that the fixer removes            *)
(* (SingleSpec)                                                            *)

\* the session has ended and the fix of iteration 1 was confirmed
FixedInFirstIteration ==
    /\ pc = "done"
    /\ total_feedback # <<>>
    /\ total_feedback[1].iteration = 1

\* C22 as stated: for a session with a single high-severity issue that the
\* fixer removes in iteration 1, after which the analyzer returns the empty
\* set, the session records a second snapshot and stops at iteration 2 with
\* final score 100.
C22_StopsAtIterationTwo ==
    FixedInFirstIteration =>
        /\ Len(iteration_history) = 2
        /\ iteration = 2
        /\ final_score = 1000

\* C22 amended: for a session with a single high-severity issue that the fixer
\* removes, after which the analyzer returns the empty set, the loop ends in
\* the iteration in which the fix was confirmed (iteration 1 for a fix of
\* iteration 1): no snapshot of the empty issue set is recorded, the history
\* has one entry per iteration, and the final score is 100.
C22_EndsWhereFixed ==
    (pc = "done" /\ current_code = "candidate") =>
        /\ total_feedback # <<>>
        /\ remaining_issues = <<>>
        /\ iteration = total_feedback[1].iteration
        /\ Len(iteration_history) = iteration
        /\ \A i \in DOMAIN iteration_history : iteration_history[i].issues # <<>>
        /\ final_score = 1000

\* the fix confirmed in iteration 1: one snapshot, one fixer call, score 100
C22_Witness ==
    /\ FixedInFirstIteration
    /\ current_code = "candidate"
    /\ iteration = 1
    /\ Len(iteration_history) = 1
    /\ fixer_calls = 1
    /\ final_score = 1000
---------------------------------------------------------------------------
(* Claims about what an unchanged result of the fixer does (StallSpec)     *)

\* the fixer has just returned unchanged code and the loop body has ended
AfterUnchangedFix == fixer_calls >= 1 /\ pc \in {"loop", "ask_continue"}

\* C23 as stated: a fixer call that returns the code unchanged leaves the
\* session's issue set unchanged: the next recorded snapshot has the same score
\* and the same issues as the previous one, and no issue is dropped from the
\* remaining set because the fixer produced no change.
C23_IssueSetKept ==
    /\ AfterUnchangedFix =>
           remaining_issues = iteration_history[Len(iteration_history)].issues
    /\ \A i \in 2..Len(iteration_history) :
           /\ iteration_history[i].score = iteration_history[i - 1].score
           /\ iteration_history[i].issues = iteration_history[i - 1].issues

\* C23 amended: a fixer call that returns the code unchanged leaves the code
\* unchanged and drops exactly the selected issues from the remaining set: the
\* next recorded snapshot has the same score as the previous one (the analyzer
\* scoring unchanged code the same) and fewer issues.
C23_SelectedIssuesDropped ==
    /\ current_code = "original"
    /\ AfterUnchangedFix =>
           /\ selected_issues # <<>>
           /\ remaining_issues =
                  SelectSeq(iteration_history[Len(iteration_history)].issues,
                            LAMBDA x : \A j \in DOMAIN selected_issues :
                                          selected_issues[j] # x)
           /\ Len(remaining_issues) + Len(selected_issues) =
                  Len(iteration_history[Len(iteration_history)].issues)
    /\ Len(remaining_issues) + fixer_calls <= Len(StallIssues)
    /\ \A i \in 2..Len(iteration_history) :
           /\ iteration_history[i].score = iteration_history[i - 1].score
           /\ Len(iteration_history[i].issues) < Len(iteration_history[i - 1].issues)

\* one fixer call that changed nothing, made for two selected issues: both
\* are gone from the remaining issues and the user is asked whether to go on
C23_Witness ==
    /\ fixer_calls = 1
    /\ pc = "ask_continue"
    /\ Len(selected_issues) = 2
    /\ Len(remaining_issues) = Len(StallIssues) - 2
    /\ current_code = "original"
---------------------------------------------------------------------------
(* Claims about the histories of the tracker (Spec)                        *)

\* `old` is what `new` was before `d` entries were appended to it
ExtendedBy(old, new, d) ==
    /\ Len(new) = Len(old) + d
    /\ \A i \in DOMAIN old : new[i] = old[i]

---------------------------------------------------------------------------
(* Claims about the stop conditions of the tracker (TrackerSpec)           *)

---------------------------------------------------------------------------
(* Claims about the user's stop request (Spec)                             *)

\* the loop was left with issues remaining: by a break on the user's answer
UserStopped == pc = "final" /\ remaining_issues # <<>>

\* the prompts of the loop: "Continue refactoring anyway?", the selection of
\* the issues and "Continue with more fixes?"
Prompts == {"ask_anyway", "select", "ask_continue"}

\* C26 as stated: a user stop request takes effect only between iterations,
\* never during a fixer or analyzer call, and the session then returns the
\* best-so-far code immediately, making no further fixer or analyzer call.
C26_NoCallAfterUserStop ==
    [][ UserStopped => ~(Finish \/ ApplyFixes \/ ConfirmChanges \/ IterationStart)
      ]_vars

\* C26 amended: a user stop request is taken at a prompt of the loop, never
\* during a fixer or analyzer call; the session then makes no further fixer
\* call and exactly one more analyzer call, for the final score, and returns
\* the current code, which is the last candidate the user confirmed (the
\* original code if none).
C26_OneScoreAfterUserStop ==
    [][ /\ (pc # "final" /\ pc' = "final" /\ remaining_issues' # <<>>) =>
               /\ pc \in Prompts
               /\ UNCHANGED <<trackerVars, current_code, remaining_issues,
                              fixer_calls, total_feedback, final_score>>
        /\ UserStopped =>
               /\ Finish
               /\ pc' = "done"
               /\ current_code' = confirmed_code
               /\ UNCHANGED <<trackerVars, current_code, remaining_issues,
                              fixer_calls, total_feedback>>
      ]_vars

\* a session the user stopped after one confirmed fix: the final analysis was
\* made and scored the code 90.0
C26_Witness ==
    /\ pc = "done"
    /\ remaining_issues # <<>>
    /\ fixer_calls = 1
    /\ current_code = "candidate"
    /\ final_score = 900
---------------------------------------------------------------------------
(* Claims about each stop condition of the tracker (TrackerSpec)           *)

\* the current issues whose category is not an acceptable one
UnacceptableCount ==
    Cardinality({i \in DOMAIN CurrentIssues :
        ClassifyIssue(CurrentIssues[i].groups)
            \notin criteria.acceptable_issue_categories})

\* C27: ThresholdReached holds exactly when the current score is at or above
\* score_threshold and the number of current issues whose category is not an
\* acceptable one is at most max_low_severity_issues; a score at or above the
\* threshold with more unacceptable issues does not stop for this reason.
C27_ThresholdReachedExactly ==
    Evaluated =>
        /\ (verdict.reason = "ThresholdReached") <=>
              /\ CurrentScore >= criteria.score_threshold
              /\ UnacceptableCount <= criteria.max_low_severity_issues
        /\ verdict.analysis.unacceptable_issues = UnacceptableCount
        /\ (CurrentScore >= criteria.score_threshold
            /\ UnacceptableCount > criteria.max_low_severity_issues)
              => verdict.reason # "ThresholdReached"

\* the threshold reached with exactly as many unacceptable issues as allowed,
\* where the snapshot before, at the threshold too, had one more
C27_Witness ==
    /\ Evaluated
    /\ Len(iteration_history) >= 2
    /\ iteration_history[Len(iteration_history) - 1].score
          >= criteria.score_threshold
    /\ iteration_history[Len(iteration_history) - 1].issues
          = <<SqlInjection, LongMethod>>
    /\ UnacceptableCount = criteria.max_low_severity_issues
    /\ UnacceptableCount > 0
    /\ verdict.reason = "ThresholdReached"
\* the number of scores recorded
Recorded == Len(score_history)

\* the improvement that the k-th score from the end made over the one before
Improvement(k) == score_history[Recorded - k] - score_history[Recorded - k - 1]

\* C28: Plateau holds exactly when at least plateau_iterations + 1 scores are
\* recorded and each of the plateau_iterations consecutive differences over
\* the trailing window is strictly below min_improvement_per_iteration (a
\* falling score counts as below); with fewer recorded scores it never holds.
C28_PlateauExactly ==
    Evaluated =>
        /\ verdict.analysis.score_plateaued <=>
              /\ Recorded >= criteria.plateau_iterations + 1
              /\ \A k \in 0..(criteria.plateau_iterations - 1) :
                    Improvement(k) < criteria.min_improvement_per_iteration
        /\ Recorded < criteria.plateau_iterations + 1 =>
              ~verdict.analysis.score_plateaued

\* a plateau whose window holds a fall of the score and a rise of 0.7
C28_Witness ==
    /\ Evaluated
    /\ verdict.analysis.score_plateaued
    /\ \E k \in 0..(criteria.plateau_iterations - 1) : Improvement(k) < 0
    /\ \E k \in 0..(criteria.plateau_iterations - 1) : Improvement(k) = 7

\* C29: DiminishingReturns holds exactly when at least 3 scores are recorded
\* and the last two consecutive score differences are both strictly below 0.5;
\* with fewer than 3 recorded scores it never holds.
C29_DiminishingReturnsExactly ==
    Evaluated =>
        /\ verdict.analysis.diminishing_returns <=>
              /\ Recorded >= 3
              /\ Improvement(0) < 5
              /\ Improvement(1) < 5
        /\ Recorded < 3 => ~verdict.analysis.diminishing_returns

\* diminishing returns on three scores rising by 0.3 and 0.2
C29_Witness ==
    /\ Evaluated
    /\ score_history = <<600, 603, 605>>
    /\ verdict.analysis.diminishing_returns

\* the categories that the issues of the i-th snapshot fall into
CategoriesOfSnapshot(i) ==
    {ClassifyIssue(iteration_history[i].issues[j].groups) :
        j \in DOMAIN iteration_history[i].issues}

\* C30: IssueCycling holds exactly when at least 4 category signatures are
\* recorded and the last 4 signatures (the sets of categories with a count
\* above 0) contain at most 2 distinct sets; with fewer than 4 records it never
\* holds.
C30_IssueCyclingExactly ==
    Evaluated =>
        /\ verdict.analysis.issue_cycling <=>
              /\ Len(issue_type_history) >= 4
              /\ Cardinality({CategoriesOfSnapshot(i) :
                     i \in (Len(iteration_history) - 3)..Len(iteration_history)})
                    <= 2
        /\ Len(issue_type_history) < 4 => ~verdict.analysis.issue_cycling

\* cycling reported on four snapshots that show exactly two signatures
C30_Witness ==
    /\ Evaluated
    /\ verdict.analysis.issue_cycling
    /\ Cardinality({CategoriesOfSnapshot(i) :
           i \in (Len(iteration_history) - 3)..Len(iteration_history)}) = 2
---------------------------------------------------------------------------
(* Claims about the iteration cap and the severities (TrackerSpec)         *)

\* C31: once the number of recorded iterations is at or above max_iterations,
\* should_stop_refactoring never returns ACTIVE: for every history of that
\* length and every issue set it returns stop = true.
C31_NeverActivePastCap ==
    (verdict # NoCall /\ Len(iteration_history) >= criteria.max_iterations) =>
        /\ ~verdict.raised
        /\ verdict.stop
        /\ verdict.reason # "Continue"

\* the cap is the only reason to stop: high-severity issues below the
\* threshold, no plateau
C31_Witness ==
    /\ Evaluated
    /\ Len(iteration_history) >= criteria.max_iterations
    /\ CurrentIssues = <<SqlInjection, LongMethod>>
    /\ ~verdict.analysis.score_plateaued
    /\ ~verdict.analysis.diminishing_returns
    /\ ~verdict.analysis.issue_cycling
    /\ verdict.stop
    /\ verdict.reason = "MaxIterationsReached"

\* C32 as stated: OnlyLowSeverity holds exactly when the current snapshot has
\* at least one issue and every current issue has severity low.
C32_OnlyLowNeedsAnIssue ==
    Evaluated =>
        (verdict.analysis.only_low_severity <=>
            /\ CurrentIssues # <<>>
            /\ \A i \in DOMAIN CurrentIssues : CurrentIssues[i].severity = "low")

\* C32 amended: OnlyLowSeverity holds exactly when every current issue has
\* severity low, which it does for a snapshot with no issue; an issue without a
\* severity counts as medium, so it prevents the condition.
C32_OnlyLowExactly ==
    Evaluated =>
        /\ verdict.analysis.only_low_severity <=>
              \A i \in DOMAIN CurrentIssues : CurrentIssues[i].severity = "low"
        /\ CurrentIssues = <<>> => verdict.analysis.only_low_severity
        /\ (\E i \in DOMAIN CurrentIssues : CurrentIssues[i].severity = "absent")
              => ~verdict.analysis.only_low_severity

\* a snapshot with no issue, recorded after one whose issue had no severity,
\* found to have only low-severity issues
C32_Witness ==
    /\ Evaluated
    /\ Len(iteration_history) >= 2
    /\ iteration_history[Len(iteration_history) - 1].issues = <<Unclassified>>
    /\ CurrentIssues = <<>>
    /\ verdict.analysis.only_low_severity
---------------------------------------------------------------------------
(* Claims about the choice of the stopping criteria (SelectionSpec)        *)

\* an issue that the session's classifier puts in the security category
SecurityIssuePresent ==
    \E i \in DOMAIN selection_issues :
        ClassifierCategory(selection_issues[i]) = "security"

\* C33: whenever at least one issue is a security issue, the stopping criteria
\* chosen for the session are the security-focused ones (score threshold 90),
\* whatever the score and the other issues are, in every function that derives
\* the criteria from the issues.
C33_SecurityFirst ==
    (selected_criteria # <<>> /\ SecurityIssuePresent) =>
        selected_criteria.criteria.score_threshold = 900
---------------------------------------------------------------------------
(* Claims about the rounds of the iterative agent (RoundsSpec)             *)

\* the issue ids that round k reported; none before the first round
IdsOfRound(k) == IF k = 0 THEN {} ELSE IdsOf(issue_history[k])

\* round k reported no issue id that was absent from the round before it
NothingNew(k) == IdsOfRound(k) \subseteq IdsOfRound(k - 1)

RoundsRun == Len(issue_history)

\* the last two rounds each reported nothing new
TwoStableRounds == RoundsRun >= 2 /\ NothingNew(RoundsRun) /\ NothingNew(RoundsRun - 1)

\* a round was run and no sub-analysis has raised
RoundCompleted == RoundsRun >= 1 /\ (analysis_result = <<>> \/ ~analysis_result.raised)

\* C34 as stated: analyze_iteratively stops with 'Issues stabilized' exactly
\* when two consecutive iterations each report no issue id that was absent
\* from the immediately preceding iteration, stops with 'No issues detected'
\* when an iteration reports no issue at all, and otherwise reports 'Reached
\* maximum iterations' after max_iterations rounds.
C34_StoppingReasons ==
    RoundCompleted =>
        /\ (stopping_reason = "Issues stabilized") <=> TwoStableRounds
        /\ issue_history[RoundsRun] = <<>> => stopping_reason = "No issues detected"
        /\ (~TwoStableRounds /\ issue_history[RoundsRun] # <<>>) =>
              stopping_reason = IF RoundsRun = max_iterations
                                THEN "Reached maximum iterations" ELSE ""

\* C34 amended: it stops with 'Issues stabilized' exactly when two consecutive
\* iterations each report no issue id that was absent from the immediately
\* preceding iteration, stops with 'No issues detected' when an iteration
\* reports no issue at all and is not the second of two such iterations (so
\* an empty report that follows an iteration without a new id ends the loop
\* as stabilized), and otherwise reports 'Reached maximum iterations' after
\* max_iterations rounds.
C34_StabilizedBeforeEmpty ==
    RoundCompleted =>
        /\ (stopping_reason = "Issues stabilized") <=> TwoStableRounds
        /\ (issue_history[RoundsRun] = <<>> /\ ~TwoStableRounds) =>
              stopping_reason = "No issues detected"
        /\ (issue_history[RoundsRun] = <<>> /\ TwoStableRounds) =>
              stopping_reason = "Issues stabilized"
        /\ (~TwoStableRounds /\ issue_history[RoundsRun] # <<>>) =>
              stopping_reason = IF RoundsRun = max_iterations
                                THEN "Reached maximum iterations" ELSE ""

\* a round without any issue that follows a round without a new id: the
\* result says the issues stabilized
C34_Witness ==
    /\ analysis_result # <<>>
    /\ ~analysis_result.raised
    /\ RoundsRun = 3
    /\ issue_history[2] # <<>>
    /\ issue_history[3] = <<>>
    /\ analysis_result.stopping_reason = "Issues stabilized"

\* C35: for every max_iterations from 0 on and every behaviour of the
\* sub-analyses, analyze_iteratively runs at most max_iterations rounds and
\* then returns a result whose stopping_reason is not empty and whose
\* iterations_run is the number of rounds actually run.
C35_ReturnsAfterAtMostMaxRounds ==
    /\ analysis_iteration <= max_iterations
    /\ analysis_result # <<>> =>
          /\ ~analysis_result.raised
          /\ analysis_result.stopping_reason # ""
          /\ analysis_result.iterations_run = analysis_iteration
---------------------------------------------------------------------------
(* Claims about declined changes (Spec)                                    *)

\* the user answers the confirmation of the shown changes with no: the
\* candidate is not recorded as confirmed
Declines == pc = "confirm" /\ confirmed_code' = confirmed_code

\* C36: when the user declines the proposed changes of an iteration, the
\* current code, the remaining issues and the feedback of the applied fixes
\* are left unchanged by that iteration, and the analyzer is not called for
\* the rejected candidate.
C36_DeclineChangesNothing ==
    [][ /\ Declines =>
              /\ fixed_code # current_code
              /\ UNCHANGED <<current_code, remaining_issues, total_feedback>>
              /\ UNCHANGED <<trackerVars, code_history, analysis_failed, final_score>>
              /\ pc' \in {"ask_continue", "loop"}
        /\ code_history' # code_history =>
              /\ code_history' = Append(code_history, current_code)
              /\ current_code = confirmed_code
      ]_vars

\* the first candidate was declined: the session asks whether to go on, with
\* the original code, its issues and no feedback
C36_Witness ==
    /\ pc = "ask_continue"
    /\ fixer_calls = 1
    /\ fixed_code = "candidate"
    /\ current_code = "original"
    /\ confirmed_code = "original"
    /\ remaining_issues # <<>>
    /\ total_feedback = <<>>
---------------------------------------------------------------------------
(* Claims about the interactive refinement of the control agent            *)
(* (LegacySpec)                                                            *)

\* C37: the final_code returned by _run_interactive_refinement is either the
\* original code or exactly the candidate that the user saw and confirmed in
\* apply_fixes, for every behaviour of the fixer.
C37_FinalCodeWasConfirmed ==
    legacy_pc = "done" => final_code \in {"original", confirmed_candidate}

\* apply_fixes has returned its feedback
FeedbackReturned == legacy_pc \in {"returned", "refined", "done"}

\* what the user typed names issues of the list, and nothing else
ValidSelection ==
    /\ user_input.kind = "text"
    /\ user_input.tokens # <<>>
    /\ \A i \in DOMAIN user_input.tokens :
          /\ user_input.tokens[i].digits
          /\ user_input.tokens[i].value \in DOMAIN input_issues

\* the positions of the issues the user selected
SelectedPositions == {user_input.tokens[i].value : i \in DOMAIN user_input.tokens}

\* the entries of the feedback that are about the issue at position n
EntriesAbout(n) == {k \in DOMAIN feedback : feedback[k].issue = input_issues[n]}

\* C38: for every valid selection, apply_fixes returns exactly one feedback
\* entry per input issue: the selected issues all share one applied status,
\* which is true only if the fixer returned code different from the original
\* and the user confirmed, and every unselected issue has applied = false; on
\* an empty, 'none' or invalid selection the fixer is not called and the
\* feedback is empty.
C38_OneEntryPerIssue ==
    FeedbackReturned =>
        IF ValidSelection
        THEN /\ Len(feedback) = Len(input_issues)
             /\ \A n \in DOMAIN input_issues : Cardinality(EntriesAbout(n)) = 1
             /\ \A k, l \in DOMAIN feedback :
                   (\E n, m \in SelectedPositions :
                        k \in EntriesAbout(n) /\ l \in EntriesAbout(m))
                      => feedback[k].applied = feedback[l].applied
             /\ \A k \in DOMAIN feedback :
                   feedback[k].applied =>
                      /\ new_code \notin {"none", "original", "unset"}
                      /\ confirmed_candidate = new_code
             /\ \A n \in DOMAIN input_issues \ SelectedPositions :
                   \A k \in EntriesAbout(n) : ~feedback[k].applied
        ELSE /\ feedback = <<>>
             /\ refactor_calls = 0

\* two issues, the second selected, the fixer's candidate confirmed: one entry
\* marked applied and one not
C38_Witness ==
    /\ FeedbackReturned
    /\ ValidSelection
    /\ Len(input_issues) = 2
    /\ SelectedPositions = {2}
    /\ confirmed_candidate = "candidate_a"
    /\ feedback[1].issue = input_issues[2] /\ feedback[1].applied
    /\ feedback[2].issue = input_issues[1] /\ ~feedback[2].applied

=============================================================================
